---------------------------- MODULE Spec2Model ----------------------------
(***************************************************************************)
(* Task Time Tracker backend: time entries, timesheets and invoices.       *)
(*                                                                         *)
(* The state is the relational database (time_entries, timesheets,         *)
(* invoices, invoice_items and the SERIAL sequences) plus the HTTP         *)
(* requests in flight.  Every handler is an async function; between two    *)
(* awaits another request may run, so a handler is a sequence of steps,    *)
(* one per database round trip, and sess[s].pc is its position.            *)
(*                                                                         *)
(* Statements between BEGIN and COMMIT write into the request's private    *)
(* transaction buffer (sess[s].tx); COMMIT publishes the buffer, ROLLBACK  *)
(* drops it.  Other sessions read committed rows only (PostgreSQL's        *)
(* default READ COMMITTED), and a statement that would write a row         *)
(* another open transaction has written waits for that transaction.        *)
(*                                                                         *)
(* Money: a JavaScript number is modelled as an exact integer count of     *)
(* millionths (binary floating point error is not modelled); a             *)
(* DECIMAL(10,2) column holds an integer count of hundredths.  Storing a   *)
(* number in such a column rounds it (ToDecimal2).                         *)
(*                                                                         *)
(* db/schema.sql gives the column types and the UNIQUE constraints; the    *)
(* columns themselves are those the models' SQL statements name.           *)
(***************************************************************************)
EXTENDS Integers, Sequences, FiniteSets, TLC

(***************************************************************************)
(* Bounds of the model.                                                    *)
(***************************************************************************)
MaxInFlight == 2
MaxInvoices == 2
MaxItems == 2
NumEntries == 2
MaxTimesheets == 1
MaxMonth == 2

(***************************************************************************)
(* Users and the static part of the schema (users, projects, tasks).       *)
(***************************************************************************)
Users == {"admin", "alice", "bob", "acme", "globex"}

role(u) ==
  CASE u = "admin" -> "admin"
    [] u \in {"alice", "bob"} -> "user"
    [] OTHER -> "client"

ClientIds == {"acme", "globex"}
\* Task 1 is of acme's project, task 2 of globex's.
Tasks == {1, 2}

\* tasks.project_id -> projects.client_id
ClientOfTask(t) == IF t = 1 THEN "acme" ELSE "globex"

EntryIds == 1..NumEntries
NULL == 0

EntryStatuses == {"draft", "submitted", "approved", "rejected", "billed"}
TimesheetStatuses == {"draft", "submitted", "approved", "rejected"}
InvoiceStatuses == {"draft", "sent", "paid", "overdue", "cancelled"}

\* The time entries a user has recorded: odd ids are alice's on acme's
\* project, even ids are bob's on globex's project.
InitialEntry(e, st) ==
  [user_id |-> IF e % 2 = 1 THEN "alice" ELSE "bob",
   task_id |-> IF e % 2 = 1 THEN 1 ELSE 2,
   is_billable |-> TRUE,
   duration_minutes |-> 60,
   status |-> st,
   timesheet_id |-> NULL]

EmptyFn == [x \in {} |-> 0]

RECURSIVE SumSeq(_)
SumSeq(s) == IF s = <<>> THEN 0 ELSE Head(s) + SumSeq(Tail(s))

\* f with the rows of g written over it
Overlay(f, g) ==
  [k \in DOMAIN f \cup DOMAIN g |-> IF k \in DOMAIN g THEN g[k] ELSE f[k]]

(***************************************************************************)
(* State.                                                                  *)
(***************************************************************************)
VARIABLES
  users,             \* rows of users, in insertion (id) order
  tasks,             \* id -> row of tasks (with its project's client)
  time_entries,      \* id -> row of time_entries
  timesheets,        \* id -> row of timesheets
  invoices,          \* id -> row of invoices
  invoice_items,     \* rows of invoice_items, in insertion (id) order
  invoices_id_seq,   \* last value of the invoices.id SERIAL sequence
  timesheets_id_seq, \* last value of the timesheets.id SERIAL sequence
  time_entries_id_seq, \* last value of the time_entries.id SERIAL sequence
  month,             \* the current calendar month (year*12+month, abstractly)
  sess,              \* the requests in flight
  user,              \* AuthProvider: useState user
  token,             \* AuthProvider: useState token
  isLoading,         \* AuthProvider: useState isLoading
  localStorage,      \* the browser's localStorage items 'token' and 'user'
  calls              \* the page's asynchronous calls and their positions

\* The state of the page in the browser.
browser == <<user, token, isLoading, localStorage, calls>>

vars == <<users, tasks, time_entries, timesheets, invoices, invoice_items,
          invoices_id_seq, timesheets_id_seq, time_entries_id_seq, month, sess,
          user, token, isLoading, localStorage, calls>>

db == <<users, tasks, time_entries, timesheets, invoices, invoice_items>>

NoTx == [invoices |-> EmptyFn, items |-> <<>>, entries |-> EmptyFn,
         timesheets |-> EmptyFn]

NoBody == [clientId |-> "none", taxRate |-> 0, items |-> <<>>,
           timeEntryIds |-> {}, status |-> "none", notes |-> FALSE,
           isBillable |-> "none", durationMinutes |-> 0,
           email |-> "none", role |-> "none", taskId |-> 0]

NoLocal == [invoiceNumber |-> <<0, 0>>, subtotal |-> 0, taxAmount |-> 0,
            total |-> 0, invoiceId |-> 0, item |-> 0, isOwner |-> FALSE,
            data |-> {}, count |-> 0]

Idle == [op |-> "idle", pc |-> "idle", user |-> "none", id |-> 0,
         body |-> NoBody, local |-> NoLocal, tx |-> NoTx, res |-> 0]

Sessions == DOMAIN sess

\* The request of session s moves on: its record changes, the others stay.
Step(s, r) == sess' = [sess EXCEPT ![s] = r]

\* res.status(code) closes the request.
Respond(s, code) ==
  Step(s, [Idle EXCEPT !.op = sess[s].op, !.user = sess[s].user, !.id = sess[s].id,
                       !.pc = "done", !.res = code])

UNCHANGED_DB ==
  UNCHANGED <<browser, users, tasks, time_entries, timesheets, invoices, invoice_items>>
UNCHANGED_SEQ ==
  UNCHANGED <<invoices_id_seq, timesheets_id_seq, time_entries_id_seq, month>>

\* Rows of time_entries another open transaction has written (row locks).
LockedEntries(s) ==
  UNION {DOMAIN sess[o].tx.entries : o \in Sessions \ {s}}
LockedTimesheets(s) ==
  UNION {DOMAIN sess[o].tx.timesheets : o \in Sessions \ {s}}

\* What session s reads inside its transaction: committed rows with its own
\* writes over them.
MyEntries(s) == Overlay(time_entries, sess[s].tx.entries)


(***************************************************************************)
(* Money.                                                                  *)
(***************************************************************************)
\* A quantity is a count of hundredths (0.25 h = 25), a unit price a count
\* of cents, a tax rate a whole percentage.  quantity * unitPrice as the
\* JavaScript number, in millionths.
LineAmount(item) == item.quantity * item.unitPrice * 100

\* items.reduce((sum, item) => sum + item.quantity * item.unitPrice, 0)
Subtotal(items) == SumSeq([i \in 1..Len(items) |-> LineAmount(items[i])])

\* subtotal * (taxRate / 100)
TaxAmount(subtotal, taxRate) == (subtotal * taxRate) \div 100

\* subtotal + taxAmount
Total(subtotal, taxAmount) == subtotal + taxAmount

\* A number stored in a DECIMAL(10,2) column: rounded to hundredths, half
\* away from zero (the amounts here are never negative).
ToDecimal2(x) == (x + 5000) \div 10000

(***************************************************************************)
(* Transactions.                                                           *)
(***************************************************************************)
\* COMMIT: the buffered writes of session s become the committed rows.
COMMIT(s) ==
  /\ time_entries' = Overlay(time_entries, sess[s].tx.entries)
  /\ timesheets' = Overlay(timesheets, sess[s].tx.timesheets)
  /\ invoices' = Overlay(invoices, sess[s].tx.invoices)
  /\ invoice_items' = invoice_items \o sess[s].tx.items
  /\ tasks' = tasks
  /\ users' = users
  /\ UNCHANGED browser

\* A catch block that ends the transaction without undoing its statements.
ROLLBACK_Publishes(s) == COMMIT(s)

\* ROLLBACK: the buffered writes are dropped (Respond clears the buffer).
ROLLBACK(s) == UNCHANGED_DB

\* The catch block of every handler: a failed query answers 500; inside a
\* transaction the model's catch block rolls back first.
DbError(s) ==
  /\ sess[s].pc \notin {"idle", "done"}
  /\ ROLLBACK(s)
  /\ Respond(s, 500)
  /\ UNCHANGED_SEQ

\* The response has been sent; the connection serves the next request.
Return(s) ==
  /\ sess[s].pc = "done"
  /\ Step(s, Idle)
  /\ UNCHANGED_DB
  /\ UNCHANGED_SEQ

\* The calendar month changes.
Tick ==
  /\ month < MaxMonth
  /\ month' = month + 1
  /\ UNCHANGED <<browser, users, tasks, time_entries, timesheets, invoices, invoice_items,
                 invoices_id_seq, timesheets_id_seq, time_entries_id_seq, sess>>

(***************************************************************************)
(* POST /api/invoices: createInvoice -> InvoiceModel.create                *)
(***************************************************************************)
\* Validators that let every body through.
validateCreateInvoice_Unchecked(b) == TRUE

\* The dates, the notes and the descriptions are taken to be valid.
validateCreateInvoice(b) ==
  /\ b.clientId \in Users
  /\ b.taxRate \in 0..100
  /\ Len(b.items) >= 1
  /\ \A i \in 1..Len(b.items) :
       /\ b.items[i].quantity >= 1
       /\ b.items[i].unitPrice >= 0
       /\ \A id \in b.items[i].timeEntryIds : id \in Nat /\ id > 0

\* createInvoice requests admitted so far that will draw an invoice id.
InvoicesStarted ==
  invoices_id_seq
    + Cardinality({o \in Sessions : /\ sess[o].op = "createInvoice"
                                    /\ sess[o].pc \in {"number", "insert"}})

\* A route guard that lets every authenticated user through.
authorize_Everyone(required, u) == TRUE

\* authorize('admin') of the routes: the middleware runs before the
\* validators and the controller and refuses any other role with 403.
authorize(required, u) == role(u) = required

\* The route guard, then the handler up to its first await: validation, the
\* role check, and the amounts InvoiceModel.create computes before it
\* queries.
ReceiveCreateInvoice(s, u, b) ==
  /\ sess[s].op = "idle"
  /\ LET req == [Idle EXCEPT !.op = "createInvoice", !.user = u, !.body = b]
     IN IF ~authorize("admin", u)
          THEN Step(s, [req EXCEPT !.pc = "done", !.res = 403, !.body = NoBody])
        ELSE IF ~validateCreateInvoice(b)
          THEN Step(s, [req EXCEPT !.pc = "done", !.res = 400, !.body = NoBody])
        ELSE IF role(u) # "admin"
          THEN Step(s, [req EXCEPT !.pc = "done", !.res = 403, !.body = NoBody])
        ELSE
          /\ InvoicesStarted < MaxInvoices
          /\ LET subtotal == Subtotal(b.items)
                 taxAmount == TaxAmount(subtotal, b.taxRate)
             IN Step(s, [req EXCEPT !.pc = "number",
                                    !.local.subtotal = subtotal,
                                    !.local.taxAmount = taxAmount,
                                    !.local.total = Total(subtotal, taxAmount)])
  /\ UNCHANGED_DB
  /\ UNCHANGED_SEQ

\* The invoice number made of the month and a count, "INV-<ym>-<count
\* padded to 4>"; the text is one-to-one with the pair.
FormatInvoiceNumber(ym, count) == <<ym, count>>

\* InvoiceModel.generateInvoiceNumber: one COUNT(*) query on the pool,
\* outside the transaction.
generateInvoiceNumber(s) ==
  /\ sess[s].op = "createInvoice"
  /\ sess[s].pc = "number"
  /\ LET count == Cardinality({i \in DOMAIN invoices :
                                 invoices[i].created_month = month}) + 1
     IN Step(s, [sess[s] EXCEPT !.pc = "insert",
                   !.local.invoiceNumber = FormatInvoiceNumber(month, count)])
  /\ UNCHANGED_DB
  /\ UNCHANGED_SEQ

\* invoices.invoice_number is UNIQUE: the numbers committed, and the numbers
\* other open transactions have inserted.
CommittedNumbers == {invoices[i].invoice_number : i \in DOMAIN invoices}
PendingNumbers(s) ==
  UNION {{sess[o].tx.invoices[i].invoice_number : i \in DOMAIN sess[o].tx.invoices} :
           o \in Sessions \ {s}}

\* The row INSERT INTO invoices stores: status 'draft', the amounts rounded
\* by their DECIMAL(10,2) columns.
InvoiceRow(s) ==
  [invoice_number |-> sess[s].local.invoiceNumber,
   client_id |-> sess[s].body.clientId,
   status |-> "draft",
   subtotal |-> ToDecimal2(sess[s].local.subtotal),
   tax_rate |-> sess[s].body.taxRate,
   tax_amount |-> ToDecimal2(sess[s].local.taxAmount),
   total |-> ToDecimal2(sess[s].local.total),
   paid_at |-> FALSE,
   created_month |-> month]

\* Where the loop over the items goes after item i is done (before the
\* first item, i is 0).
AfterItem(s, i) == IF i < Len(sess[s].body.items) THEN "item" ELSE "commit"

\* BEGIN and INSERT INTO invoices.  The id is drawn from the sequence
\* whether or not the insert succeeds; a committed invoice with the same
\* number is a unique violation (catch: ROLLBACK, 500); the same number in
\* an open transaction makes the insert wait for that transaction.
InsertInvoice(s) ==
  /\ sess[s].op = "createInvoice"
  /\ sess[s].pc = "insert"
  /\ sess[s].local.invoiceNumber \notin PendingNumbers(s)
  /\ invoices_id_seq' = invoices_id_seq + 1
  /\ IF sess[s].local.invoiceNumber \in CommittedNumbers
       THEN /\ ROLLBACK(s)
            /\ Respond(s, 500)
       ELSE /\ Step(s, [sess[s] EXCEPT
                 !.pc = AfterItem(s, 0),
                 !.local.invoiceId = invoices_id_seq + 1,
                 !.local.item = 1,
                 !.tx.invoices = (invoices_id_seq + 1) :> InvoiceRow(s)])
            /\ UNCHANGED_DB
  /\ UNCHANGED <<timesheets_id_seq, time_entries_id_seq, month>>

\* The row INSERT INTO invoice_items stores for one item of the request.
ItemRow(invoiceId, item) ==
  [invoice_id |-> invoiceId,
   quantity |-> item.quantity,
   unit_price |-> item.unitPrice,
   amount |-> ToDecimal2(LineAmount(item)),
   time_entry_ids |-> item.timeEntryIds]

\* for (const item of items): INSERT INTO invoice_items
InsertItem(s) ==
  /\ sess[s].op = "createInvoice"
  /\ sess[s].pc = "item"
  /\ LET i == sess[s].local.item
         item == sess[s].body.items[i]
     IN Step(s, [sess[s] EXCEPT
          !.tx.items = Append(@, ItemRow(sess[s].local.invoiceId, item)),
          !.pc = IF item.timeEntryIds # {} THEN "bill" ELSE AfterItem(s, i),
          !.local.item = IF item.timeEntryIds # {} THEN i ELSE i + 1])
  /\ UNCHANGED_DB
  /\ UNCHANGED_SEQ

\* The rows UPDATE time_entries SET status = 'billed' WHERE id = ANY($1)
\* changes: every existing row whose id is in the array.
BilledRows(entries, ids) ==
  [e \in ids \cap DOMAIN entries |-> [entries[e] EXCEPT !.status = "billed"]]

\* if (item.timeEntryIds.length > 0): UPDATE time_entries
MarkBilled(s) ==
  /\ sess[s].op = "createInvoice"
  /\ sess[s].pc = "bill"
  /\ LET i == sess[s].local.item
         ids == sess[s].body.items[i].timeEntryIds
     IN /\ (ids \cap DOMAIN time_entries) \cap LockedEntries(s) = {}
        /\ Step(s, [sess[s] EXCEPT
             !.tx.entries = Overlay(@, BilledRows(MyEntries(s), ids)),
             !.pc = AfterItem(s, i),
             !.local.item = i + 1])
  /\ UNCHANGED_DB
  /\ UNCHANGED_SEQ

\* COMMIT of InvoiceModel.create
CommitInvoice(s) ==
  /\ sess[s].op = "createInvoice"
  /\ sess[s].pc = "commit"
  /\ COMMIT(s)
  /\ Step(s, [sess[s] EXCEPT !.pc = "fetch", !.tx = NoTx])
  /\ UNCHANGED_SEQ

\* this.findById(invoice.id) after the commit, then 201
CreateInvoiceDone(s) ==
  /\ sess[s].op = "createInvoice"
  /\ sess[s].pc = "fetch"
  /\ Respond(s, 201)
  /\ UNCHANGED_DB
  /\ UNCHANGED_SEQ

(***************************************************************************)
(* PATCH /api/invoices/:id/status: updateInvoiceStatus                     *)
(***************************************************************************)
validateUpdateStatus(b) == b.status \in InvoiceStatuses

ReceiveUpdateInvoiceStatus(s, u, id, b) ==
  /\ sess[s].op = "idle"
  /\ LET req == [Idle EXCEPT !.op = "updateInvoiceStatus", !.user = u,
                             !.id = id, !.body = b]
     IN IF ~authorize("admin", u)
          THEN Step(s, [req EXCEPT !.pc = "done", !.res = 403, !.body = NoBody])
        ELSE IF ~validateUpdateStatus(b)
          THEN Step(s, [req EXCEPT !.pc = "done", !.res = 400, !.body = NoBody])
        ELSE IF role(u) # "admin"
          THEN Step(s, [req EXCEPT !.pc = "done", !.res = 403, !.body = NoBody])
        ELSE Step(s, [req EXCEPT !.pc = "update"])
  /\ UNCHANGED_DB
  /\ UNCHANGED_SEQ

\* InvoiceModel.updateStatus: UPDATE invoices SET status; no row: 404
UpdateInvoiceStatusRow(s) ==
  /\ sess[s].op = "updateInvoiceStatus"
  /\ sess[s].pc = "update"
  /\ IF sess[s].id \notin DOMAIN invoices
       THEN /\ Respond(s, 404)
            /\ UNCHANGED invoices
       ELSE /\ invoices' = [invoices EXCEPT ![sess[s].id].status = sess[s].body.status]
            /\ Step(s, [sess[s] EXCEPT
                 !.pc = IF sess[s].body.status = "paid" THEN "paid_at" ELSE "fetch"])
  /\ UNCHANGED <<browser, users, tasks, time_entries, timesheets, invoice_items>>
  /\ UNCHANGED_SEQ

\* if (status === 'paid'): UPDATE invoices SET paid_at = CURRENT_TIMESTAMP
SetPaidAt(s) ==
  /\ sess[s].op = "updateInvoiceStatus"
  /\ sess[s].pc = "paid_at"
  /\ invoices' = [i \in DOMAIN invoices |->
                    IF i = sess[s].id THEN [invoices[i] EXCEPT !.paid_at = TRUE]
                    ELSE invoices[i]]
  /\ Step(s, [sess[s] EXCEPT !.pc = "fetch"])
  /\ UNCHANGED <<browser, users, tasks, time_entries, timesheets, invoice_items>>
  /\ UNCHANGED_SEQ

\* return this.findById(id); the controller answers 200, or 404 for null
UpdateInvoiceStatusDone(s) ==
  /\ sess[s].op = "updateInvoiceStatus"
  /\ sess[s].pc = "fetch"
  /\ Respond(s, IF sess[s].id \in DOMAIN invoices THEN 200 ELSE 404)
  /\ UNCHANGED_DB
  /\ UNCHANGED_SEQ

(***************************************************************************)
(* Invoices: the requests of the billing specification.                    *)
(***************************************************************************)
Item(q, p, ids) == [quantity |-> q, unitPrice |-> p, timeEntryIds |-> ids]

\* Sequences of 1..MaxItems items drawn from a set of items.
ItemLists(items) == UNION {[1..n -> items] : n \in 1..MaxItems}

CreateInvoiceBody(c, r, items) ==
  [NoBody EXCEPT !.clientId = c, !.taxRate = r, !.items = items]

InitDb(statuses) ==
  /\ time_entries \in {[e \in EntryIds |-> InitialEntry(e, f[e])] :
                         f \in [EntryIds -> statuses]}
  /\ tasks = [t \in Tasks |-> [client_id |-> ClientOfTask(t), status |-> "pending"]]
  /\ users = <<>>
  /\ timesheets = EmptyFn
  /\ invoices = EmptyFn
  /\ invoice_items = <<>>
  /\ invoices_id_seq = 0
  /\ timesheets_id_seq = 0
  /\ time_entries_id_seq = NumEntries
  /\ month = 1

CreateInvoiceSteps(s) ==
  \/ generateInvoiceNumber(s)
  \/ InsertInvoice(s)
  \/ InsertItem(s)
  \/ MarkBilled(s)
  \/ CommitInvoice(s)
  \/ CreateInvoiceDone(s)

UpdateInvoiceStatusSteps(s) ==
  \/ UpdateInvoiceStatusRow(s)
  \/ SetPaidAt(s)
  \/ UpdateInvoiceStatusDone(s)

\* null of the page's values: no user, no token, no localStorage item.
null == "null"

NoStorage == [token |-> null, user |-> null]

NoCalls == [initializeAuth |-> "idle", login |-> "idle", storedToken |-> null,
            email |-> null, href |-> FALSE, logout |-> FALSE]

\* No page of the frontend is open.
NoPage ==
  /\ user = null
  /\ token = null
  /\ isLoading = FALSE
  /\ localStorage = NoStorage
  /\ calls = NoCalls

\* One request at a time, or up to MaxInFlight requests at once.
InitSequential(statuses) ==
  /\ InitDb(statuses)
  /\ sess = [s \in {1} |-> Idle]
  /\ NoPage

InitConcurrent(statuses) ==
  /\ InitDb(statuses)
  /\ sess = [s \in 1..MaxInFlight |-> Idle]
  /\ NoPage

\* Billing: which time entries an invoice bills, and for which client.
BillingItems == {Item(100, 5000, ids) : ids \in {{}} \cup {{e} : e \in EntryIds}}
BillingBodies ==
  {CreateInvoiceBody(c, 0, items) : c \in ClientIds, items \in ItemLists(BillingItems)}
    \cup {CreateInvoiceBody("acme", 0, <<>>)}

InitBilling == InitSequential({"draft", "approved"})

NextBilling ==
  \/ \E s \in Sessions, u \in {"admin", "acme"}, b \in BillingBodies :
       ReceiveCreateInvoice(s, u, b)
  \/ \E s \in Sessions : CreateInvoiceSteps(s)
  \/ \E s \in Sessions : DbError(s)
  \/ \E s \in Sessions : Return(s)

SpecBilling == InitBilling /\ [][NextBilling]_vars

\* The invoice items that reference time entry e.
ItemsReferencing(e) ==
  {k \in 1..Len(invoice_items) : e \in invoice_items[k].time_entry_ids}

\* C3: every time entry id is referenced by at most one invoice item, over
\* all invoices.
C3_AtMostOneItemPerEntry ==
  \A e \in EntryIds : Cardinality(ItemsReferencing(e)) <= 1

\* C7: whenever a step sets a time entry's status to billed, the entry's
\* status just before was approved.
C7_BillsOnlyApproved ==
  [][\A e \in DOMAIN time_entries \cap DOMAIN time_entries' :
       (time_entries'[e].status = "billed" /\ time_entries[e].status # "billed")
         => time_entries[e].status = "approved"]_vars

\* C8: every time entry an invoice item references belongs to a task of a
\* project of the invoice's client.
C8_EntriesOfInvoiceClient ==
  \A k \in 1..Len(invoice_items) :
    \A e \in invoice_items[k].time_entry_ids \cap DOMAIN time_entries :
      ClientOfTask(time_entries[e].task_id)
        = invoices[invoice_items[k].invoice_id].client_id

(***************************************************************************)
(* Amounts: what an invoice stores for given quantities, prices and rates.  *)
(***************************************************************************)
AmountItems == {Item(q, p, {}) : q \in {25, 100}, p \in {1}}
AmountBodies ==
  {CreateInvoiceBody("acme", r, items) :
     r \in {0, 100}, items \in ItemLists(AmountItems)}
    \cup {CreateInvoiceBody("acme", 101, <<Item(100, 1, {})>>)}
StatusBodies == {[NoBody EXCEPT !.status = st] : st \in {"paid", "sent", "void"}}

InitAmounts == InitSequential({"draft"})

NextAmounts ==
  \/ \E s \in Sessions, u \in {"admin", "acme"}, b \in AmountBodies :
       ReceiveCreateInvoice(s, u, b)
  \/ \E s \in Sessions : CreateInvoiceSteps(s)
  \/ \E s \in Sessions, u \in {"admin", "acme"}, id \in 1..MaxInvoices,
        b \in StatusBodies :
       ReceiveUpdateInvoiceStatus(s, u, id, b)
  \/ \E s \in Sessions : UpdateInvoiceStatusSteps(s)
  \/ \E s \in Sessions : DbError(s)
  \/ \E s \in Sessions : Return(s)

SpecAmounts == InitAmounts /\ [][NextAmounts]_vars

\* The stored items of invoice i, in id order.
ItemsOf(i) == SelectSeq(invoice_items, LAMBDA it : it.invoice_id = i)

StoredAmount(it) == it.amount
\* quantity * unit_price of a stored item, in hundredths where that is a
\* whole number of hundredths, and in millionths.
ExactAmount(it) == it.quantity * it.unit_price * 100

\* C1: every stored invoice's total is the sum of the amounts of its stored
\* items plus its tax amount.
C1_TotalIsItemsPlusTax ==
  \A i \in DOMAIN invoices :
    invoices[i].total
      = SumSeq([k \in 1..Len(ItemsOf(i)) |-> StoredAmount(ItemsOf(i)[k])])
          + invoices[i].tax_amount

\* C2: the stored subtotal is the sum of quantity * unit price over the
\* items, the stored tax amount is subtotal * taxRate / 100, and the stored
\* total is subtotal + tax amount (stored hundredths against exact
\* millionths).
C2_StoredAmountsExact ==
  \A i \in DOMAIN invoices :
    LET exact == SumSeq([k \in 1..Len(ItemsOf(i)) |-> ExactAmount(ItemsOf(i)[k])])
    IN /\ invoices[i].subtotal * 10000 = exact
       /\ invoices[i].tax_amount * 10000 * 100 = exact * invoices[i].tax_rate
       /\ invoices[i].total = invoices[i].subtotal + invoices[i].tax_amount

(***************************************************************************)
(* Stored invoices: the bounds on their amounts, and their later life.     *)
(***************************************************************************)
\* Bodies the validators accept (a rounded-away amount, a free item, the
\* highest tax rate) and two they refuse (a tax rate above 100, no item).
StoredBodies ==
  {CreateInvoiceBody("acme", r, items) :
     r \in {10, 100},
     items \in {<<Item(25, 1, {})>>, <<Item(100, 50, {}), Item(1, 0, {})>>}}
    \cup {CreateInvoiceBody("acme", 101, <<Item(100, 50, {})>>),
          CreateInvoiceBody("acme", 10, <<>>)}

InitStored == InitSequential({"draft"})

NextStored ==
  \/ \E s \in Sessions, b \in StoredBodies : ReceiveCreateInvoice(s, "admin", b)
  \/ \E s \in Sessions : CreateInvoiceSteps(s)
  \/ \E s \in Sessions, id \in 1..MaxInvoices, st \in {"paid", "void"} :
       ReceiveUpdateInvoiceStatus(s, "admin", id, [NoBody EXCEPT !.status = st])
  \/ \E s \in Sessions : UpdateInvoiceStatusSteps(s)
  \/ \E s \in Sessions : DbError(s)
  \/ \E s \in Sessions : Return(s)

SpecStored == InitStored /\ [][NextStored]_vars

\* C20: after every step, each stored invoice has at least one stored item,
\* subtotal >= 0, 0 <= tax_amount <= subtotal and total >= subtotal; and a
\* step leaves the amounts and the items of the invoices already stored as
\* they were (new items belong to a new invoice).
C20_StoredAmountsBounded ==
  [][/\ \A i \in DOMAIN invoices' :
          /\ \E k \in 1..Len(invoice_items') : invoice_items'[k].invoice_id = i
          /\ invoices'[i].subtotal >= 0
          /\ invoices'[i].tax_amount >= 0
          /\ invoices'[i].tax_amount <= invoices'[i].subtotal
          /\ invoices'[i].total >= invoices'[i].subtotal
     /\ \A i \in DOMAIN invoices :
          /\ i \in DOMAIN invoices'
          /\ invoices'[i].subtotal = invoices[i].subtotal
          /\ invoices'[i].tax_rate = invoices[i].tax_rate
          /\ invoices'[i].tax_amount = invoices[i].tax_amount
          /\ invoices'[i].total = invoices[i].total
     /\ Len(invoice_items') >= Len(invoice_items)
     /\ SubSeq(invoice_items', 1, Len(invoice_items)) = invoice_items
     /\ \A k \in (Len(invoice_items) + 1)..Len(invoice_items') :
          invoice_items'[k].invoice_id \notin DOMAIN invoices]_vars

\* An invoice with tax rate 100 and a positive subtotal is stored, with
\* its two items, and has since been paid.
C20_Witness ==
  \E i \in DOMAIN invoices :
    /\ invoices[i].tax_rate = 100
    /\ invoices[i].subtotal > 0
    /\ invoices[i].tax_amount = invoices[i].subtotal
    /\ invoices[i].status = "paid"
    /\ Len(ItemsOf(i)) = 2

(***************************************************************************)
(* Numbering: concurrent createInvoice requests across a month boundary.   *)
(***************************************************************************)
NumberingBodies == {CreateInvoiceBody("acme", 0, <<Item(100, 5000, {})>>)}

InitNumbering == InitConcurrent({"draft"})

NextNumbering ==
  \/ \E s \in Sessions, b \in NumberingBodies :
       ReceiveCreateInvoice(s, "admin", b)
  \/ \E s \in Sessions : CreateInvoiceSteps(s)
  \/ \E s \in Sessions : DbError(s)
  \/ \E s \in Sessions : Return(s)
  \/ Tick

SpecNumbering == InitNumbering /\ [][NextNumbering]_vars

\* The invoices created in the same month as invoice i, up to i.
RankInMonth(i) ==
  Cardinality({j \in DOMAIN invoices :
                 /\ invoices[j].created_month = invoices[i].created_month
                 /\ j <= i})

\* The createInvoice requests that hold a generated number and have not
\* inserted their invoice yet.
HoldsNumber(s) == sess[s].op = "createInvoice" /\ sess[s].pc = "insert"

\* C9: the k-th invoice created in a month has number INV-<month>-<k>, no
\* two invoices share a number, and no createInvoice request fails on a
\* number collision: the number a request holds is not stored and is held
\* by no other request.
C9_SequentialNumbers ==
  /\ \A i \in DOMAIN invoices :
       invoices[i].invoice_number
         = FormatInvoiceNumber(invoices[i].created_month, RankInMonth(i))
  /\ \A i, j \in DOMAIN invoices :
       i # j => invoices[i].invoice_number # invoices[j].invoice_number
  /\ \A s \in Sessions :
       HoldsNumber(s) =>
         /\ sess[s].local.invoiceNumber \notin CommittedNumbers
         /\ \A o \in Sessions \ {s} :
              HoldsNumber(o) =>
                sess[o].local.invoiceNumber # sess[s].local.invoiceNumber

(***************************************************************************)
(* Atomicity: concurrent createInvoice requests with failing queries.      *)
(***************************************************************************)
AtomicBodies ==
  {CreateInvoiceBody("acme", 0, <<Item(100, 5000, {1})>>),
   CreateInvoiceBody("acme", 0, <<Item(100, 5000, {1}), Item(100, 5000, {NumEntries})>>)}

InitAtomic == InitConcurrent({"approved"})

NextAtomic ==
  \/ \E s \in Sessions, b \in AtomicBodies : ReceiveCreateInvoice(s, "admin", b)
  \/ \E s \in Sessions : CreateInvoiceSteps(s)
  \/ \E s \in Sessions : DbError(s)
  \/ \E s \in Sessions : Return(s)

SpecAtomic == InitAtomic /\ [][NextAtomic]_vars

\* Session s is between BEGIN and COMMIT of InvoiceModel.create.
InCreateTx(s) ==
  /\ sess[s].op = "createInvoice"
  /\ sess[s].pc \in {"insert", "item", "bill", "commit"}

AllEntryIds(items) == UNION {items[k].timeEntryIds : k \in 1..Len(items)}

\* C5: a step of InvoiceModel.create between BEGIN and COMMIT either
\* commits, and then stores the invoice row, one row per item and the
\* 'billed' mark of every referenced entry together, or stores nothing; in
\* particular a failing statement (500) leaves no invoice, item or status
\* change behind.
C5_AllOrNothing ==
  [][\A s \in Sessions :
       (InCreateTx(s) /\ sess'[s] # sess[s]) =>
         IF sess'[s].pc = "fetch"
           THEN LET id == sess[s].local.invoiceId
                    items == sess[s].body.items
                IN /\ id \notin DOMAIN invoices
                   /\ DOMAIN invoices' = DOMAIN invoices \cup {id}
                   /\ \A i \in DOMAIN invoices : invoices'[i] = invoices[i]
                   /\ invoices'[id].client_id = sess[s].body.clientId
                   /\ invoice_items'
                        = invoice_items \o [k \in 1..Len(items) |-> ItemRow(id, items[k])]
                   /\ DOMAIN time_entries' = DOMAIN time_entries
                   /\ \A e \in DOMAIN time_entries :
                        time_entries'[e]
                          = IF e \in AllEntryIds(items)
                              THEN [time_entries[e] EXCEPT !.status = "billed"]
                              ELSE time_entries[e]
           ELSE <<time_entries, timesheets, invoices, invoice_items>>'
                  = <<time_entries, timesheets, invoices, invoice_items>>]_vars

\* Invoice ids drawn by an INSERT whose transaction is neither committed nor
\* still open: the insert was rolled back.
RolledBackIds ==
  {id \in 1..invoices_id_seq :
     /\ id \notin DOMAIN invoices
     /\ \A s \in Sessions : id \notin DOMAIN sess[s].tx.invoices}

\* One createInvoice was rolled back and answered 500, and another one
\* committed an invoice of two items with both entries billed.
C5_Witness ==
  /\ RolledBackIds # {}
  /\ \E s \in Sessions :
       sess[s].op = "createInvoice" /\ sess[s].pc = "done" /\ sess[s].res = 500
  /\ \E i \in DOMAIN invoices : Len(ItemsOf(i)) = 2
  /\ \A e \in {1, NumEntries} : time_entries[e].status = "billed"

(***************************************************************************)
(* POST /api/timesheets: createTimesheet -> TimesheetModel.create          *)
(***************************************************************************)
\* The dates of the body are not modelled; the ids must be positive.
validateCreateTimesheet(b) == \A id \in b.timeEntryIds : id > 0

\* createTimesheet requests admitted so far that will draw a timesheet id.
TimesheetsStarted ==
  timesheets_id_seq
    + Cardinality({o \in Sessions : /\ sess[o].op = "createTimesheet"
                                    /\ sess[o].pc = "insert"})

ReceiveCreateTimesheet(s, u, b) ==
  /\ sess[s].op = "idle"
  /\ LET req == [Idle EXCEPT !.op = "createTimesheet", !.user = u, !.body = b]
     IN IF ~validateCreateTimesheet(b)
          THEN Step(s, [req EXCEPT !.pc = "done", !.res = 400, !.body = NoBody])
        ELSE Step(s, [req EXCEPT !.pc = "insert"])
  /\ UNCHANGED_DB
  /\ UNCHANGED_SEQ

\* The row INSERT INTO timesheets stores: the controller passes 'draft'.
TimesheetRow(s) ==
  [user_id |-> sess[s].user, status |-> "draft", approved_by |-> "none"]

\* BEGIN and INSERT INTO timesheets
InsertTimesheet(s) ==
  /\ sess[s].op = "createTimesheet"
  /\ sess[s].pc = "insert"
  /\ timesheets_id_seq' = timesheets_id_seq + 1
  /\ Step(s, [sess[s] EXCEPT
       !.id = timesheets_id_seq + 1,
       !.tx.timesheets = (timesheets_id_seq + 1) :> TimesheetRow(s),
       !.pc = IF sess[s].body.timeEntryIds # {} THEN "attach" ELSE "commit"])
  /\ UNCHANGED_DB
  /\ UNCHANGED <<invoices_id_seq, time_entries_id_seq, month>>

\* The rows UPDATE time_entries SET timesheet_id = $1, status = 'submitted'
\* WHERE id = ANY($2) AND user_id = $3 changes.
AttachedRows(entries, ids, tid, uid) ==
  [e \in {x \in ids \cap DOMAIN entries : entries[x].user_id = uid} |->
     [entries[e] EXCEPT !.timesheet_id = tid, !.status = "submitted"]]

\* if (timeEntryIds.length > 0): UPDATE time_entries
AttachEntries(s) ==
  /\ sess[s].op = "createTimesheet"
  /\ sess[s].pc = "attach"
  /\ LET rows == AttachedRows(MyEntries(s), sess[s].body.timeEntryIds,
                              sess[s].id, sess[s].user)
     IN /\ DOMAIN rows \cap LockedEntries(s) = {}
        /\ Step(s, [sess[s] EXCEPT !.tx.entries = Overlay(@, rows),
                                   !.pc = "commit"])
  /\ UNCHANGED_DB
  /\ UNCHANGED_SEQ

\* COMMIT of TimesheetModel.create, then 201
CommitTimesheet(s) ==
  /\ sess[s].op = "createTimesheet"
  /\ sess[s].pc = "commit"
  /\ COMMIT(s)
  /\ Respond(s, 201)
  /\ UNCHANGED_SEQ

(***************************************************************************)
(* POST /api/timesheets/:id/submit, /approve, /reject                      *)
(***************************************************************************)
StatusOps == {"submitTimesheet", "approveTimesheet", "rejectTimesheet"}

ReceiveSubmitTimesheet(s, u, id) ==
  /\ sess[s].op = "idle"
  /\ Step(s, [Idle EXCEPT !.op = "submitTimesheet", !.user = u, !.id = id,
                          !.body.status = "submitted", !.pc = "find"])
  /\ UNCHANGED_DB
  /\ UNCHANGED_SEQ

\* TimesheetModel.findById, then the owner check and the draft check
SubmitTimesheetCheck(s) ==
  /\ sess[s].op = "submitTimesheet"
  /\ sess[s].pc = "find"
  /\ IF sess[s].id \notin DOMAIN timesheets THEN Respond(s, 404)
     ELSE IF timesheets[sess[s].id].user_id # sess[s].user THEN Respond(s, 403)
     ELSE IF timesheets[sess[s].id].status # "draft" THEN Respond(s, 400)
     ELSE Step(s, [sess[s] EXCEPT !.pc = "update"])
  /\ UNCHANGED_DB
  /\ UNCHANGED_SEQ

\* approveTimesheet checks the role only.
ReceiveApproveTimesheet(s, u, id) ==
  /\ sess[s].op = "idle"
  /\ LET req == [Idle EXCEPT !.op = "approveTimesheet", !.user = u, !.id = id]
     IN IF role(u) # "admin"
          THEN Step(s, [req EXCEPT !.pc = "done", !.res = 403])
        ELSE Step(s, [req EXCEPT !.body.status = "approved", !.pc = "update"])
  /\ UNCHANGED_DB
  /\ UNCHANGED_SEQ

\* rejectTimesheet checks the role and that a reason is given.
ReceiveRejectTimesheet(s, u, id, notes) ==
  /\ sess[s].op = "idle"
  /\ LET req == [Idle EXCEPT !.op = "rejectTimesheet", !.user = u, !.id = id]
     IN IF role(u) # "admin"
          THEN Step(s, [req EXCEPT !.pc = "done", !.res = 403])
        ELSE IF ~notes
          THEN Step(s, [req EXCEPT !.pc = "done", !.res = 400])
        ELSE Step(s, [req EXCEPT !.body.status = "rejected", !.body.notes = TRUE,
                                 !.pc = "update"])
  /\ UNCHANGED_DB
  /\ UNCHANGED_SEQ

\* The UPDATE of the timesheet sent on the pool instead of the transaction's
\* client: it commits on its own.
UpdateTimesheetRow_OnPool(s) ==
  /\ sess[s].op \in StatusOps
  /\ sess[s].pc = "update"
  /\ sess[s].id \in DOMAIN timesheets
  /\ timesheets' = [timesheets EXCEPT ![sess[s].id].status = sess[s].body.status]
  /\ Step(s, [sess[s] EXCEPT !.pc = "cascade"])
  /\ UNCHANGED <<browser, users, tasks, time_entries, invoices, invoice_items>>
  /\ UNCHANGED_SEQ

\* TimesheetModel.updateStatus: BEGIN and UPDATE timesheets SET status,
\* approved_by WHERE id = $4; no row: ROLLBACK, null, 404.
UpdateTimesheetRow(s) ==
  /\ sess[s].op \in StatusOps
  /\ sess[s].pc = "update"
  /\ sess[s].id \notin LockedTimesheets(s) \cap DOMAIN timesheets
  /\ IF sess[s].id \notin DOMAIN timesheets
       THEN /\ ROLLBACK(s)
            /\ Respond(s, 404)
       ELSE /\ Step(s, [sess[s] EXCEPT
                 !.tx.timesheets = sess[s].id :>
                    [timesheets[sess[s].id] EXCEPT !.status = sess[s].body.status,
                                                  !.approved_by = sess[s].user],
                 !.pc = IF sess[s].body.status \in {"approved", "rejected"}
                          THEN "cascade" ELSE "commit"])
            /\ UNCHANGED_DB
  /\ UNCHANGED_SEQ

\* The rows UPDATE time_entries SET status = $1 WHERE timesheet_id = $2
\* changes.
CascadeRows(entries, tid, st) ==
  [e \in {x \in DOMAIN entries : entries[x].timesheet_id = tid} |->
     [entries[e] EXCEPT !.status = st]]

\* if (status === 'approved' || status === 'rejected'): UPDATE time_entries
CascadeEntries(s) ==
  /\ sess[s].op \in StatusOps
  /\ sess[s].pc = "cascade"
  /\ LET rows == CascadeRows(MyEntries(s), sess[s].id, sess[s].body.status)
     IN /\ DOMAIN rows \cap LockedEntries(s) = {}
        /\ Step(s, [sess[s] EXCEPT !.tx.entries = Overlay(@, rows),
                                   !.pc = "commit"])
  /\ UNCHANGED_DB
  /\ UNCHANGED_SEQ

\* COMMIT of TimesheetModel.updateStatus; the controller answers 200.
CommitTimesheetStatus(s) ==
  /\ sess[s].op \in StatusOps
  /\ sess[s].pc = "commit"
  /\ COMMIT(s)
  /\ Respond(s, 200)
  /\ UNCHANGED_SEQ

(***************************************************************************)
(* POST /api/timesheets/:id/entries, DELETE /api/timesheets/:id/entries    *)
(***************************************************************************)
ModifyOps == {"addTimeEntriesToTimesheet", "removeTimeEntriesFromTimesheet"}

\* Both handlers answer 400 for an empty array before they query.
ReceiveModifyTimesheet(s, op, u, id, ids) ==
  /\ sess[s].op = "idle"
  /\ op \in ModifyOps
  /\ LET req == [Idle EXCEPT !.op = op, !.user = u, !.id = id]
     IN IF ids = {}
          THEN Step(s, [req EXCEPT !.pc = "done", !.res = 400])
        ELSE Step(s, [req EXCEPT !.body.timeEntryIds = ids, !.pc = "find"])
  /\ UNCHANGED_DB
  /\ UNCHANGED_SEQ

\* TimesheetModel.findById, then the owner check and the draft check
ModifyTimesheetCheck(s) ==
  /\ sess[s].op \in ModifyOps
  /\ sess[s].pc = "find"
  /\ IF sess[s].id \notin DOMAIN timesheets THEN Respond(s, 404)
     ELSE IF timesheets[sess[s].id].user_id # sess[s].user THEN Respond(s, 403)
     ELSE IF timesheets[sess[s].id].status # "draft" THEN Respond(s, 400)
     ELSE Step(s, [sess[s] EXCEPT !.pc = "write"])
  /\ UNCHANGED_DB
  /\ UNCHANGED_SEQ

\* The rows UPDATE time_entries SET timesheet_id = $1, status = 'submitted'
\* WHERE id = ANY($2) AND timesheet_id IS NULL changes.
AddedRows(entries, ids, tid) ==
  [e \in {x \in ids \cap DOMAIN entries : entries[x].timesheet_id = NULL} |->
     [entries[e] EXCEPT !.timesheet_id = tid, !.status = "submitted"]]

\* The rows UPDATE time_entries SET timesheet_id = NULL, status = 'draft'
\* WHERE id = ANY($1) AND timesheet_id = $2 changes.
RemovedRows(entries, ids, tid) ==
  [e \in {x \in ids \cap DOMAIN entries : entries[x].timesheet_id = tid} |->
     [entries[e] EXCEPT !.timesheet_id = NULL, !.status = "draft"]]

\* One UPDATE on the pool (its own transaction); rowCount = 0 answers 400.
WriteEntries(s, rows) ==
  /\ sess[s].pc = "write"
  /\ DOMAIN rows \cap LockedEntries(s) = {}
  /\ time_entries' = Overlay(time_entries, rows)
  /\ IF DOMAIN rows = {} THEN Respond(s, 400)
     ELSE Step(s, [sess[s] EXCEPT !.pc = "fetch"])
  /\ UNCHANGED <<browser, users, tasks, timesheets, invoices, invoice_items>>
  /\ UNCHANGED_SEQ

addTimeEntries(s) ==
  /\ sess[s].op = "addTimeEntriesToTimesheet"
  /\ WriteEntries(s, AddedRows(time_entries, sess[s].body.timeEntryIds, sess[s].id))

removeTimeEntries(s) ==
  /\ sess[s].op = "removeTimeEntriesFromTimesheet"
  /\ WriteEntries(s, RemovedRows(time_entries, sess[s].body.timeEntryIds, sess[s].id))

\* TimesheetModel.findById for the answer, then 200
ModifyTimesheetDone(s) ==
  /\ sess[s].op \in ModifyOps
  /\ sess[s].pc = "fetch"
  /\ Respond(s, 200)
  /\ UNCHANGED_DB
  /\ UNCHANGED_SEQ

(***************************************************************************)
(* Timesheets: requests in flight together.                                *)
(***************************************************************************)
TimesheetBodies ==
  {[NoBody EXCEPT !.timeEntryIds = ids] : ids \in {{}, {1}, {0}}}

TimesheetIds == 1..MaxTimesheets

InitTimesheet == InitConcurrent({"draft"})

CreateTimesheetSteps(s) ==
  \/ InsertTimesheet(s)
  \/ AttachEntries(s)
  \/ CommitTimesheet(s)

TimesheetStatusSteps(s) ==
  \/ SubmitTimesheetCheck(s)
  \/ UpdateTimesheetRow(s)
  \/ CascadeEntries(s)
  \/ CommitTimesheetStatus(s)

ModifyTimesheetSteps(s) ==
  \/ ModifyTimesheetCheck(s)
  \/ addTimeEntries(s)
  \/ removeTimeEntries(s)
  \/ ModifyTimesheetDone(s)

NextTimesheet ==
  \/ \E s \in Sessions, u \in {"alice"}, b \in TimesheetBodies :
       TimesheetsStarted < MaxTimesheets /\ ReceiveCreateTimesheet(s, u, b)
  \/ \E s \in Sessions, u \in {"alice", "bob"}, id \in TimesheetIds :
       ReceiveSubmitTimesheet(s, u, id)
  \/ \E s \in Sessions, u \in {"alice", "admin"}, id \in TimesheetIds :
       ReceiveApproveTimesheet(s, u, id)
  \/ \E s \in Sessions, u \in {"alice", "admin"}, id \in TimesheetIds, notes \in BOOLEAN :
       ReceiveRejectTimesheet(s, u, id, notes)
  \/ \E s \in Sessions, op \in ModifyOps, u \in {"alice", "bob"}, id \in TimesheetIds,
        ids \in {{}, {1}, {NumEntries}} :
       ReceiveModifyTimesheet(s, op, u, id, ids)
  \/ \E s \in Sessions : CreateTimesheetSteps(s)
  \/ \E s \in Sessions : TimesheetStatusSteps(s)
  \/ \E s \in Sessions : ModifyTimesheetSteps(s)
  \/ \E s \in Sessions : DbError(s)
  \/ \E s \in Sessions : Return(s)

SpecTimesheet == InitTimesheet /\ [][NextTimesheet]_vars

\* C15: addTimeEntriesToTimesheet and removeTimeEntriesFromTimesheet set or
\* clear a time entry's timesheet_id only while the stored status of the
\* timesheet they name is draft, whatever runs beside them.
C15_ModifiedOnlyWhileDraft ==
  [][\A s \in Sessions :
       (/\ sess'[s] # sess[s]
        /\ sess[s].op \in ModifyOps
        /\ \E e \in DOMAIN time_entries \cap DOMAIN time_entries' :
             time_entries'[e].timesheet_id # time_entries[e].timesheet_id)
         => /\ sess[s].id \in DOMAIN timesheets
            /\ timesheets[sess[s].id].status = "draft"]_vars

\* C23: in every state, a time entry attached to a stored timesheet has
\* the user_id of that timesheet.
C23_AttachedEntriesOfOwner ==
  \A e \in DOMAIN time_entries :
    time_entries[e].timesheet_id \in DOMAIN timesheets
      => time_entries[e].user_id = timesheets[time_entries[e].timesheet_id].user_id

(***************************************************************************)
(* Timesheets: one user's requests, one after the other, with one more     *)
(* timesheet than elsewhere.                                               *)
(***************************************************************************)
InitReattach == InitSequential({"draft"})

NextReattach ==
  \/ \E s \in Sessions, ids \in {{}, {1}} :
       /\ TimesheetsStarted < MaxTimesheets + 1
       /\ ReceiveCreateTimesheet(s, "alice", [NoBody EXCEPT !.timeEntryIds = ids])
  \/ \E s \in Sessions, op \in ModifyOps, id \in 1..(MaxTimesheets + 1),
        ids \in {{1}, {1, NumEntries}} :
       ReceiveModifyTimesheet(s, op, "alice", id, ids)
  \/ \E s \in Sessions : CreateTimesheetSteps(s)
  \/ \E s \in Sessions : ModifyTimesheetSteps(s)
  \/ \E s \in Sessions : Return(s)

SpecReattach == InitReattach /\ [][NextReattach]_vars

\* C22: the timesheet_id of a time entry attached to a timesheet changes
\* only to NULL.
C22_AttachedOnlyDetached ==
  [][\A e \in DOMAIN time_entries \cap DOMAIN time_entries' :
       time_entries[e].timesheet_id # NULL
         => time_entries'[e].timesheet_id \in {time_entries[e].timesheet_id, NULL}
    ]_vars

\* C6: a timesheet's status only moves draft -> submitted -> approved or
\* rejected: it becomes submitted only from draft, approved or rejected only
\* from submitted, and it never leaves approved or rejected.
C6_StatusLifecycle ==
  [][\A t \in DOMAIN timesheets :
       timesheets'[t].status # timesheets[t].status
         => <<timesheets[t].status, timesheets'[t].status>>
              \in {<<"draft", "submitted">>, <<"submitted", "approved">>,
                   <<"submitted", "rejected">>}]_vars

\* C4: when approveTimesheet (rejectTimesheet) commits on timesheet T and
\* answers 200, every committed time entry whose timesheet_id is T has
\* status approved (rejected), and the entries of other timesheets are as
\* they were.
C4_ApprovalCascades ==
  [][\A s \in Sessions :
       (/\ sess[s].op \in {"approveTimesheet", "rejectTimesheet"}
        /\ sess[s].pc = "commit"
        /\ sess'[s].pc = "done"
        /\ sess'[s].res = 200)
         => \A e \in DOMAIN time_entries' :
              IF time_entries'[e].timesheet_id = sess[s].id
                THEN time_entries'[e].status = sess[s].body.status
                ELSE time_entries'[e] = time_entries[e]]_vars

(***************************************************************************)
(* PUT /api/time-entries/:id, DELETE /api/time-entries/:id                 *)
(***************************************************************************)
EntryOps == {"updateTimeEntry", "deleteTimeEntry"}

\* An absent field of the body is NULL (durationMinutes), "none" (status,
\* isBillable); the dates and the description are not modelled.
validateUpdateTimeEntry(id, b) ==
  /\ id >= 1
  /\ b.durationMinutes = NULL \/ b.durationMinutes >= 1
  /\ b.isBillable \in {"none", "true", "false"}
  /\ b.status \in {"none"} \cup EntryStatuses

ReceiveUpdateTimeEntry(s, u, id, b) ==
  /\ sess[s].op = "idle"
  /\ LET req == [Idle EXCEPT !.op = "updateTimeEntry", !.user = u, !.id = id]
     IN IF ~validateUpdateTimeEntry(id, b)
          THEN Step(s, [req EXCEPT !.pc = "done", !.res = 400])
        ELSE Step(s, [req EXCEPT !.body = b, !.pc = "owns"])
  /\ UNCHANGED_DB
  /\ UNCHANGED_SEQ

\* deleteTimeEntry does not read the validation result.
ReceiveDeleteTimeEntry(s, u, id) ==
  /\ sess[s].op = "idle"
  /\ Step(s, [Idle EXCEPT !.op = "deleteTimeEntry", !.user = u, !.id = id,
                          !.pc = "owns"])
  /\ UNCHANGED_DB
  /\ UNCHANGED_SEQ

\* A check that finds the entry whoever recorded it.
userOwnsEntry_AnyUser(entryId, userId) == entryId \in DOMAIN time_entries

\* SELECT 1 FROM time_entries WHERE id = $1 AND user_id = $2; rowCount > 0
userOwnsEntry(entryId, userId) ==
  /\ entryId \in DOMAIN time_entries
  /\ time_entries[entryId].user_id = userId

\* await userOwnsEntry, then the checks before the write: neither owner nor
\* admin is 403; updateTimeEntry also answers 403 to a status other than
\* 'draft' from a user who is not an admin.
CheckOwner(s) ==
  /\ sess[s].op \in EntryOps
  /\ sess[s].pc = "owns"
  /\ LET isOwner == userOwnsEntry(sess[s].id, sess[s].user)
         status == sess[s].body.status
     IN IF ~isOwner /\ role(sess[s].user) # "admin" THEN Respond(s, 403)
        ELSE IF /\ sess[s].op = "updateTimeEntry"
                /\ status # "none" /\ status # "draft"
                /\ role(sess[s].user) # "admin" THEN Respond(s, 403)
        ELSE Step(s, [sess[s] EXCEPT !.local.isOwner = isOwner, !.pc = "write"])
  /\ UNCHANGED_DB
  /\ UNCHANGED_SEQ

\* The row UPDATE time_entries SET x = COALESCE($n, x) leaves for a body.
UpdatedEntry(row, b) ==
  [row EXCEPT
     !.duration_minutes = IF b.durationMinutes = NULL THEN @ ELSE b.durationMinutes,
     !.is_billable = IF b.isBillable = "none" THEN @ ELSE b.isBillable = "true",
     !.status = IF b.status = "none" THEN @ ELSE b.status]

\* TimeEntryModel.update: one UPDATE on the pool; no row answers 404.
UpdateEntry(s) ==
  /\ sess[s].op = "updateTimeEntry"
  /\ sess[s].pc = "write"
  /\ sess[s].id \notin LockedEntries(s)
  /\ IF sess[s].id \notin DOMAIN time_entries
       THEN /\ Respond(s, 404)
            /\ UNCHANGED time_entries
       ELSE /\ time_entries' = [time_entries EXCEPT
                 ![sess[s].id] = UpdatedEntry(@, sess[s].body)]
            /\ Respond(s, 200)
  /\ UNCHANGED <<browser, users, tasks, timesheets, invoices, invoice_items>>
  /\ UNCHANGED_SEQ

\* TimeEntryModel.delete: DELETE FROM time_entries WHERE id = $1; rowCount = 0
\* answers 404.
DeleteEntry(s) ==
  /\ sess[s].op = "deleteTimeEntry"
  /\ sess[s].pc = "write"
  /\ sess[s].id \notin LockedEntries(s)
  /\ IF sess[s].id \notin DOMAIN time_entries
       THEN /\ Respond(s, 404)
            /\ UNCHANGED time_entries
       ELSE /\ time_entries' = [e \in DOMAIN time_entries \ {sess[s].id} |->
                                  time_entries[e]]
            /\ Respond(s, 200)
  /\ UNCHANGED <<browser, users, tasks, timesheets, invoices, invoice_items>>
  /\ UNCHANGED_SEQ

(***************************************************************************)
(* Time entries: updates and deletes in flight together.                   *)
(***************************************************************************)
UpdateBodies ==
  {[NoBody EXCEPT !.durationMinutes = 30, !.isBillable = "false", !.status = "draft"],
   [NoBody EXCEPT !.status = "approved"],
   [NoBody EXCEPT !.durationMinutes = -1]}

InitEntries == InitConcurrent({"draft"})

NextEntries ==
  \/ \E s \in Sessions, u \in {"alice", "bob", "admin"}, id \in EntryIds,
        b \in UpdateBodies :
       ReceiveUpdateTimeEntry(s, u, id, b)
  \/ \E s \in Sessions, u \in {"alice", "bob", "admin"}, id \in EntryIds :
       ReceiveDeleteTimeEntry(s, u, id)
  \/ \E s \in Sessions : CheckOwner(s)
  \/ \E s \in Sessions : UpdateEntry(s)
  \/ \E s \in Sessions : DeleteEntry(s)
  \/ \E s \in Sessions : DbError(s)
  \/ \E s \in Sessions : Return(s)

SpecEntries == InitEntries /\ [][NextEntries]_vars

\* The request of session s, as it stands after the step, is an update or a
\* delete of an existing entry by a user who neither recorded it nor is an
\* admin.
ByNonOwner(s) ==
  /\ sess'[s] # sess[s]
  /\ sess'[s].op \in EntryOps
  /\ role(sess'[s].user) # "admin"
  /\ sess'[s].id \in DOMAIN time_entries
  /\ time_entries[sess'[s].id].user_id # sess'[s].user

\* The step answers the request of session s.
Answers(s) == sess[s].pc # "done" /\ sess'[s].pc = "done"

\* C10 as stated: every updateTimeEntry or deleteTimeEntry of a user who is
\* neither the owner of the entry nor an admin is answered 403, and no step
\* of the request changes a field of the entry or deletes it.
C10_NonOwnerAnswered403 ==
  [][\A s \in Sessions :
       ByNonOwner(s) =>
         /\ time_entries' = time_entries
         /\ Answers(s) => sess'[s].res = 403]_vars

\* C10 amended: such a request never changes or deletes the entry, and it
\* is answered 403 unless validation rejects its body first (400, on
\* receipt) or the ownership query itself fails (500).
C10_NonOwnerRefused ==
  [][\A s \in Sessions :
       ByNonOwner(s) =>
         /\ time_entries' = time_entries
         /\ Answers(s) =>
              \/ sess'[s].res = 403
              \/ sess'[s].res = 400 /\ sess[s].pc = "idle"
                   /\ sess'[s].op = "updateTimeEntry"
              \/ sess'[s].res = 500 /\ sess[s].pc = "owns"]_vars

\* bob has been answered 403 on alice's entry 1, which is as recorded, while
\* bob's own entry has been updated or deleted.
C10_Witness ==
  /\ \E s \in Sessions :
       /\ sess[s].op \in EntryOps /\ sess[s].pc = "done" /\ sess[s].res = 403
       /\ sess[s].user = "bob" /\ sess[s].id = 1
  /\ 1 \in DOMAIN time_entries
  /\ time_entries[1] = InitialEntry(1, "draft")
  /\ 2 \notin DOMAIN time_entries
       \/ time_entries[2] # InitialEntry(2, "draft")

\* C14: a step of an updateTimeEntry request made by a user who is not an
\* admin leaves the stored status of every time entry as it was.
C14_NonAdminKeepsStatus ==
  [][\A s \in Sessions :
       (/\ sess'[s] # sess[s]
        /\ sess[s].op = "updateTimeEntry"
        /\ role(sess[s].user) # "admin")
         => \A e \in DOMAIN time_entries :
              /\ e \in DOMAIN time_entries'
              /\ time_entries'[e].status = time_entries[e].status]_vars

(***************************************************************************)
(* TimesheetModel.updateStatus as a transaction.                           *)
(***************************************************************************)
\* Status changes in flight together, on timesheets created with entry 1.
InitStatus == InitConcurrent({"draft"})

NextStatus ==
  \/ \E s \in Sessions :
       /\ TimesheetsStarted < MaxTimesheets
       /\ ReceiveCreateTimesheet(s, "alice", [NoBody EXCEPT !.timeEntryIds = {1}])
  \/ \E s \in Sessions, id \in TimesheetIds : ReceiveSubmitTimesheet(s, "alice", id)
  \/ \E s \in Sessions, id \in TimesheetIds : ReceiveApproveTimesheet(s, "admin", id)
  \/ \E s \in Sessions : CreateTimesheetSteps(s)
  \/ \E s \in Sessions : TimesheetStatusSteps(s)
  \/ \E s \in Sessions : DbError(s)
  \/ \E s \in Sessions : Return(s)

SpecStatus == InitStatus /\ [][NextStatus]_vars

\* The step is one of session s inside TimesheetModel.updateStatus.
InUpdateStatus(s) ==
  /\ sess'[s] # sess[s]
  /\ sess[s].op \in StatusOps
  /\ sess[s].pc \in {"update", "cascade", "commit"}

\* C11: TimesheetModel.updateStatus is atomic: a step of the call either
\* leaves every table as it was, or is the COMMIT that changes the
\* timesheet's status and the status of the entries its cascade wrote
\* together and nothing else; a call for an id that does not exist ends
\* with 404 (or 500 when the statement fails) and no row changed.
C11_UpdateStatusAtomic ==
  [][\A s \in Sessions :
       InUpdateStatus(s) =>
         LET id == sess[s].id
             st == sess[s].body.status
         IN /\ IF sess'[s].pc = "done" /\ sess'[s].res = 200
                 THEN /\ sess[s].pc = "commit"
                      /\ timesheets'[id].status = st
                      /\ \A t \in DOMAIN timesheets \ {id} :
                           timesheets'[t] = timesheets[t]
                      /\ DOMAIN time_entries' = DOMAIN time_entries
                      /\ \A e \in DOMAIN time_entries :
                           time_entries'[e]
                             = IF e \in DOMAIN sess[s].tx.entries
                                 THEN [time_entries[e] EXCEPT !.status = st]
                                 ELSE time_entries[e]
                      /\ <<invoices, invoice_items>>' = <<invoices, invoice_items>>
                 ELSE <<time_entries, timesheets, invoices, invoice_items>>'
                        = <<time_entries, timesheets, invoices, invoice_items>>
            /\ (sess'[s].pc = "done" /\ sess'[s].res = 404)
                 => id \notin DOMAIN timesheets
            /\ (sess[s].pc = "update" /\ id \notin DOMAIN timesheets)
                 => sess'[s].pc = "done" /\ sess'[s].res \in {404, 500}]_vars

\* One call for a timesheet that did not exist was answered 404, and an
\* approveTimesheet is before its COMMIT: its transaction holds the approved
\* timesheet and an approved entry while the committed rows are as before.
C11_Witness ==
  /\ \E s \in Sessions :
       sess[s].op \in StatusOps /\ sess[s].pc = "done" /\ sess[s].res = 404
  /\ \E s \in Sessions :
       /\ sess[s].op = "approveTimesheet" /\ sess[s].pc = "commit"
       /\ sess[s].id \in DOMAIN timesheets
       /\ timesheets[sess[s].id].status = "draft"
       /\ sess[s].tx.timesheets[sess[s].id].status = "approved"
       /\ \E e \in DOMAIN sess[s].tx.entries :
            /\ sess[s].tx.entries[e].status = "approved"
            /\ time_entries[e].status = "submitted"

(***************************************************************************)
(* Invoices: who may create them and change their status.                  *)
(***************************************************************************)
RoleBodies ==
  {CreateInvoiceBody("acme", 10, <<Item(100, 5000, {1})>>),
   CreateInvoiceBody("acme", 101, <<>>)}

RoleStatusBodies == {[NoBody EXCEPT !.status = st] : st \in {"paid", "void"}}

InitRoles == InitSequential({"approved"})

NextRoles ==
  \/ \E s \in Sessions, u \in {"admin", "alice", "acme"}, b \in RoleBodies :
       ReceiveCreateInvoice(s, u, b)
  \/ \E s \in Sessions : CreateInvoiceSteps(s)
  \/ \E s \in Sessions, u \in {"admin", "alice", "acme"}, id \in 1..MaxInvoices,
        b \in RoleStatusBodies :
       ReceiveUpdateInvoiceStatus(s, u, id, b)
  \/ \E s \in Sessions : UpdateInvoiceStatusSteps(s)
  \/ \E s \in Sessions : DbError(s)
  \/ \E s \in Sessions : Return(s)

SpecRoles == InitRoles /\ [][NextRoles]_vars

\* C12: a createInvoice or updateInvoiceStatus request of a user whose role
\* is not admin is answered 403, and no step of it changes an invoice, an
\* invoice item or a time entry.
C12_AdminOnlyInvoices ==
  [][\A s \in Sessions :
       (/\ sess'[s] # sess[s]
        /\ sess'[s].op \in {"createInvoice", "updateInvoiceStatus"}
        /\ role(sess'[s].user) # "admin")
         => /\ <<invoices, invoice_items, time_entries>>'
                 = <<invoices, invoice_items, time_entries>>
            /\ sess'[s].pc = "done"
            /\ sess'[s].res = 403]_vars

\* An admin has created an invoice and marked it paid, and the request of a
\* user who is not an admin on that invoice has been answered 403.
C12_Witness ==
  /\ \E i \in DOMAIN invoices : invoices[i].status = "paid"
  /\ \E e \in DOMAIN time_entries : time_entries[e].status = "billed"
  /\ \E s \in Sessions :
       /\ sess[s].op \in {"createInvoice", "updateInvoiceStatus"}
       /\ role(sess[s].user) # "admin"
       /\ sess[s].pc = "done" /\ sess[s].res = 403

(***************************************************************************)
(* GET /api/invoices/:id, GET /api/invoices, GET /api/invoices/:id/download *)
(***************************************************************************)
ReadOps == {"getInvoice", "getInvoices", "downloadInvoicePdf"}

\* res.json(data): the request is answered with rows (and, for a list, the
\* count); the query string stays with the request.
RespondData(s, code, data, count) ==
  Step(s, [Idle EXCEPT !.op = sess[s].op, !.user = sess[s].user, !.id = sess[s].id,
                       !.body = sess[s].body, !.pc = "done", !.res = code,
                       !.local.data = data, !.local.count = count])

\* Neither handler reads the validation result; the ids are numbers.
ReceiveGetInvoice(s, op, u, id) ==
  /\ sess[s].op = "idle"
  /\ op \in {"getInvoice", "downloadInvoicePdf"}
  /\ Step(s, [Idle EXCEPT !.op = op, !.user = u, !.id = id, !.pc = "find"])
  /\ UNCHANGED_DB
  /\ UNCHANGED_SEQ

\* InvoiceModel.findById, first query: SELECT i.* FROM invoices i JOIN users
\* WHERE i.id = $1; no row is null, which the handler answers with 404.
FindInvoiceRow(s) ==
  /\ sess[s].op \in {"getInvoice", "downloadInvoicePdf"}
  /\ sess[s].pc = "find"
  /\ IF sess[s].id \notin DOMAIN invoices THEN Respond(s, 404)
     ELSE Step(s, [sess[s] EXCEPT
            !.pc = "items",
            !.local.data = {[id |-> sess[s].id, row |-> invoices[sess[s].id]]}])
  /\ UNCHANGED_DB
  /\ UNCHANGED_SEQ

\* SELECT * FROM invoice_items WHERE invoice_id = $1 ORDER BY id
ItemsOfInvoice(i) == SelectSeq(invoice_items, LAMBDA it : it.invoice_id = i)

\* InvoiceModel.findById, second query, and the handler's answer: 403 to a
\* requester who is neither an admin nor the invoice's client; otherwise
\* the invoice with its items, or the PDF named after the invoice number.
FindInvoiceItems(s) ==
  /\ sess[s].op \in {"getInvoice", "downloadInvoicePdf"}
  /\ sess[s].pc = "items"
  /\ LET found == CHOOSE d \in sess[s].local.data : TRUE
         u == sess[s].user
     IN IF role(u) # "admin" /\ u # found.row.client_id THEN Respond(s, 403)
        ELSE IF sess[s].op = "getInvoice"
          THEN RespondData(s, 200,
                 {[id |-> found.id, row |-> found.row,
                   items |-> ItemsOfInvoice(found.id)]}, 0)
        ELSE RespondData(s, 200,
               {[id |-> found.id,
                 row |-> [client_id |-> found.row.client_id,
                          invoice_number |-> found.row.invoice_number]]}, 0)
  /\ UNCHANGED_DB
  /\ UNCHANGED_SEQ

\* A filter that takes the clientId of the query string from everyone.
InvoiceFilter_FromQuery(u, clientId) == clientId

\* filter.clientId: the query's clientId for an admin ("none" when it is
\* absent), the requester's own id for everyone else.
InvoiceFilter(u, clientId) == IF role(u) = "admin" THEN clientId ELSE u

\* getInvoices does not read the validation result.
ReceiveGetInvoices(s, u, clientId) ==
  /\ sess[s].op = "idle"
  /\ Step(s, [Idle EXCEPT !.op = "getInvoices", !.user = u,
                          !.body.clientId = clientId, !.pc = "count"])
  /\ UNCHANGED_DB
  /\ UNCHANGED_SEQ

\* WHERE 1=1 [AND i.client_id = $1], over a table inv of invoices.
MatchingInvoices(inv, clientId) ==
  {i \in DOMAIN inv : clientId = "none" \/ inv[i].client_id = clientId}

\* InvoiceModel.findAll, first query: SELECT COUNT(*) FROM invoices i WHERE ...
CountInvoices(s) ==
  /\ sess[s].op = "getInvoices"
  /\ sess[s].pc = "count"
  /\ Step(s, [sess[s] EXCEPT
       !.pc = "list",
       !.local.count = Cardinality(MatchingInvoices(invoices,
                         InvoiceFilter(sess[s].user, sess[s].body.clientId)))])
  /\ UNCHANGED_DB
  /\ UNCHANGED_SEQ

\* The rows of the second query over a table inv: each invoice with the
\* number and the sum of its items (first page; the tables are smaller than
\* a page).
ListedInvoices(inv, clientId) ==
  {[id |-> i, row |-> inv[i],
    item_count |-> Len(ItemsOfInvoice(i)),
    items_total |-> SumSeq([k \in 1..Len(ItemsOfInvoice(i)) |->
                              ItemsOfInvoice(i)[k].amount])] :
     i \in MatchingInvoices(inv, clientId)}

\* InvoiceModel.findAll, second query, and res.json({data, pagination})
ListInvoices(s) ==
  /\ sess[s].op = "getInvoices"
  /\ sess[s].pc = "list"
  /\ RespondData(s, 200,
       ListedInvoices(invoices, InvoiceFilter(sess[s].user, sess[s].body.clientId)),
       sess[s].local.count)
  /\ UNCHANGED_DB
  /\ UNCHANGED_SEQ

(***************************************************************************)
(* Invoices: what a requester reads while invoices are created.            *)
(***************************************************************************)
ReadBodies ==
  {CreateInvoiceBody(c, 10, <<Item(1, 5000, {})>>) : c \in ClientIds}

InvoiceIds == 1..MaxInvoices

InitReads == InitConcurrent({"approved"})

ReadSteps(s) ==
  \/ FindInvoiceRow(s)
  \/ FindInvoiceItems(s)
  \/ CountInvoices(s)
  \/ ListInvoices(s)

NextReads ==
  \/ \E s \in Sessions, b \in ReadBodies : ReceiveCreateInvoice(s, "admin", b)
  \/ \E s \in Sessions, op \in {"getInvoice", "downloadInvoicePdf"},
        u \in {"acme"}, id \in InvoiceIds :
       ReceiveGetInvoice(s, op, u, id)
  \/ \E s \in Sessions, u \in {"acme"}, c \in {"globex"} :
       ReceiveGetInvoices(s, u, c)
  \/ \E s \in Sessions : CreateInvoiceSteps(s)
  \/ \E s \in Sessions : ReadSteps(s)
  \/ \E s \in Sessions : Return(s)

SpecReads == InitReads /\ [][NextReads]_vars

\* The invoices of client u, as a table.
OwnInvoices(u) ==
  [i \in {j \in DOMAIN invoices : invoices[j].client_id = u} |-> invoices[i]]

\* Session s, a read request of a requester who is not an admin, is answered
\* in this step by the handler (not by the catch block).
NonAdminReadAnswered(s) ==
  /\ sess[s].pc \notin {"idle", "done"} /\ sess'[s].pc = "done"
  /\ sess[s].op \in ReadOps
  /\ role(sess[s].user) # "admin"
  /\ sess'[s].res # 500

\* C16: the answer a non-admin receives to getInvoice, getInvoices or
\* downloadInvoicePdf is the answer the same request receives when the
\* other clients' invoices are not in the table: an invoice found for another
\* client is answered like no invoice (404), and a list and its count are
\* those computed over the requester's own invoices.
C16_ReadsIndependentOfOthers ==
  [][\A s \in Sessions :
       NonAdminReadAnswered(s) =>
         LET u == sess[s].user
         IN /\ sess[s].pc = "items" =>
                 IF \E d \in sess[s].local.data : d.row.client_id = u
                   THEN sess'[s].res = 200
                 ELSE sess'[s].res = 404
            /\ sess[s].pc = "list" =>
                 sess'[s].local.data =
                   ListedInvoices(OwnInvoices(u),
                                  InvoiceFilter(u, sess[s].body.clientId))]_vars

\* C16 as the code has it: a non-admin is answered 403 for an invoice of
\* another client and 404 for no invoice, every row a non-admin receives is
\* an invoice whose client is the requester, a list is the list over the
\* requester's own invoices whatever clientId the query names, and its
\* count is at most the number of the requester's own invoices.
C16_NonAdminReadsOwnInvoices ==
  [][\A s \in Sessions :
       NonAdminReadAnswered(s) =>
         LET u == sess[s].user
         IN /\ \A d \in sess'[s].local.data : d.row.client_id = u
            /\ sess[s].pc = "find" => sess'[s].res = 404
            /\ sess[s].pc = "items" =>
                 IF \E d \in sess[s].local.data : d.row.client_id = u
                   THEN sess'[s].res = 200 /\ sess'[s].local.data # {}
                 ELSE sess'[s].res = 403 /\ sess'[s].local.data = {}
            /\ sess[s].pc = "list" =>
                 /\ sess'[s].res = 200
                 /\ sess'[s].local.data = ListedInvoices(OwnInvoices(u), "none")
                 /\ sess'[s].local.count <= Cardinality(DOMAIN OwnInvoices(u))]_vars

\* acme has been refused another client's invoice, and has listed its own
\* invoice with a query naming globex while globex has an invoice.
C16_Witness ==
  /\ \E s \in Sessions :
       /\ sess[s].op \in {"getInvoice", "downloadInvoicePdf"}
       /\ sess[s].user = "acme" /\ sess[s].pc = "done" /\ sess[s].res = 403
       /\ sess[s].id \in DOMAIN invoices
       /\ invoices[sess[s].id].client_id = "globex"
  /\ \E s \in Sessions :
       /\ sess[s].op = "getInvoices" /\ sess[s].user = "acme"
       /\ sess[s].body.clientId = "globex"
       /\ sess[s].pc = "done" /\ sess[s].res = 200
       /\ sess[s].local.data # {}
       /\ \A d \in sess[s].local.data : d.row.client_id = "acme"

(***************************************************************************)
(* GET /api/invoices/unbilled-entries/:clientId                            *)
(***************************************************************************)
\* The route lets admins through; the controller checks the role again.
ReceiveGetUnbilledTimeEntries(s, u, clientId) ==
  /\ sess[s].op = "idle"
  /\ LET req == [Idle EXCEPT !.op = "getUnbilledTimeEntries", !.user = u,
                             !.body.clientId = clientId]
     IN IF ~authorize("admin", u) \/ role(u) # "admin"
          THEN Step(s, [req EXCEPT !.pc = "done", !.res = 403])
        ELSE Step(s, [req EXCEPT !.pc = "query"])
  /\ UNCHANGED_DB
  /\ UNCHANGED_SEQ

\* The query without its NOT IN clause.
UnbilledTimeEntries_IgnoringItems(clientId) ==
  {e \in DOMAIN time_entries :
     /\ time_entries[e].task_id \in DOMAIN tasks
     /\ tasks[time_entries[e].task_id].client_id = clientId
     /\ time_entries[e].status = "approved"
     /\ time_entries[e].is_billable}

\* FROM time_entries te JOIN tasks t JOIN projects p
\* WHERE p.client_id = $1 AND te.status = 'approved' AND te.is_billable = true
\*   AND te.id NOT IN (SELECT unnest(time_entry_ids) FROM invoice_items ...)
UnbilledTimeEntries(clientId) ==
  {e \in DOMAIN time_entries :
     /\ time_entries[e].task_id \in DOMAIN tasks
     /\ tasks[time_entries[e].task_id].client_id = clientId
     /\ time_entries[e].status = "approved"
     /\ time_entries[e].is_billable
     /\ e \notin UNION {invoice_items[k].time_entry_ids :
                          k \in 1..Len(invoice_items)}}

\* InvoiceModel.getUnbilledTimeEntries and res.json(timeEntries)
GetUnbilledTimeEntries(s) ==
  /\ sess[s].op = "getUnbilledTimeEntries"
  /\ sess[s].pc = "query"
  /\ RespondData(s, 200,
       {[id |-> e, row |-> time_entries[e]] :
          e \in UnbilledTimeEntries(sess[s].body.clientId)}, 0)
  /\ UNCHANGED_DB
  /\ UNCHANGED_SEQ

(***************************************************************************)
(* Unbilled time entries while invoices are created and entries updated.   *)
(***************************************************************************)
UnbilledBodies ==
  {CreateInvoiceBody("acme", 10, <<Item(1, 5000, ids)>>) : ids \in {{1}, {2}}}

UnbilledUpdates == {[NoBody EXCEPT !.status = "approved"]}

InitUnbilled == InitConcurrent({"approved"})

NextUnbilled ==
  \/ \E s \in Sessions, b \in UnbilledBodies : ReceiveCreateInvoice(s, "admin", b)
  \/ \E s \in Sessions, u \in {"admin", "acme"}, c \in ClientIds :
       ReceiveGetUnbilledTimeEntries(s, u, c)
  \/ \E s \in Sessions, id \in {1}, b \in UnbilledUpdates :
       ReceiveUpdateTimeEntry(s, "admin", id, b)
  \/ \E s \in Sessions : CreateInvoiceSteps(s)
  \/ \E s \in Sessions : GetUnbilledTimeEntries(s)
  \/ \E s \in Sessions : CheckOwner(s)
  \/ \E s \in Sessions : UpdateEntry(s)
  \/ \E s \in Sessions : Return(s)

SpecUnbilled == InitUnbilled /\ [][NextUnbilled]_vars

\* C17: getUnbilledTimeEntries(clientId) answers with exactly the time
\* entries of a task of that client that are billable, approved and
\* referenced by no stored invoice item; a reference, once stored, stays,
\* so an entry billed by a committed createInvoice is never returned again.
C17_UnbilledExactly ==
  [][/\ \A s \in Sessions :
          (/\ sess[s].op = "getUnbilledTimeEntries"
           /\ sess[s].pc = "query" /\ sess'[s].pc = "done")
            => /\ sess'[s].res = 200
               /\ {d.id : d \in sess'[s].local.data} =
                    {e \in DOMAIN time_entries :
                       /\ ClientOfTask(time_entries[e].task_id) = sess[s].body.clientId
                       /\ time_entries[e].is_billable
                       /\ time_entries[e].status = "approved"
                       /\ ItemsReferencing(e) = {}}
               /\ \A d \in sess'[s].local.data : d.row = time_entries[d.id]
     /\ \A e \in EntryIds :
          ItemsReferencing(e) # {} =>
            \E k \in 1..Len(invoice_items') : e \in invoice_items'[k].time_entry_ids
    ]_vars

\* Entry 1 is in an item of a committed invoice and is approved and
\* billable again, and the list answered for its client leaves it out.
C17_Witness ==
  /\ ItemsReferencing(1) # {}
  /\ time_entries[1].status = "approved" /\ time_entries[1].is_billable
  /\ \E s \in Sessions :
       /\ sess[s].op = "getUnbilledTimeEntries" /\ sess[s].pc = "done"
       /\ sess[s].res = 200 /\ sess[s].body.clientId = "acme"
       /\ sess[s].local.data = {}

(***************************************************************************)
(* POST /api/auth/register                                                 *)
(***************************************************************************)
\* Addresses isEmail accepts; "nobody" stands for one it refuses.
Emails == {"ann@example.com", "ben@example.com"}

\* The password and the names are taken to be valid.
validateRegistration(b) ==
  /\ b.email \in Emails
  /\ b.role \in {"none", "admin", "user", "client"}

\* The last validator of the route answers 400 itself.
ReceiveRegister(s, b) ==
  /\ sess[s].op = "idle"
  /\ LET req == [Idle EXCEPT !.op = "register"]
     IN IF ~validateRegistration(b)
          THEN Step(s, [req EXCEPT !.pc = "done", !.res = 400])
        ELSE Step(s, [req EXCEPT !.body = b, !.pc = "find"])
  /\ UNCHANGED_DB
  /\ UNCHANGED_SEQ

\* SELECT * FROM users WHERE email = $1
findByEmail(email) == {i \in 1..Len(users) : users[i].email = email}

\* if (existingUser) 400 'User already exists'
CheckExistingUser(s) ==
  /\ sess[s].op = "register"
  /\ sess[s].pc = "find"
  /\ IF findByEmail(sess[s].body.email) # {} THEN Respond(s, 400)
     ELSE Step(s, [sess[s] EXCEPT !.pc = "create"])
  /\ UNCHANGED_DB
  /\ UNCHANGED_SEQ

\* UserModel.create: INSERT INTO users; email is UNIQUE, so the insert of an
\* address a row already has fails and the catch block answers 500.  The
\* row's position stands for its id.
CreateUser(s) ==
  /\ sess[s].op = "register"
  /\ sess[s].pc = "create"
  /\ IF findByEmail(sess[s].body.email) # {}
       THEN /\ Respond(s, 500)
            /\ UNCHANGED users
       ELSE /\ users' = Append(users,
                 [email |-> sess[s].body.email,
                  role |-> IF sess[s].body.role = "none" THEN "user"
                           ELSE sess[s].body.role])
            /\ Respond(s, 201)
  /\ UNCHANGED <<browser, tasks, time_entries, timesheets, invoices, invoice_items>>
  /\ UNCHANGED_SEQ

(***************************************************************************)
(* Registrations in flight together.                                       *)
(***************************************************************************)
RegisterBodies ==
  {[NoBody EXCEPT !.email = e, !.role = r] :
     e \in Emails \cup {"nobody"}, r \in {"none", "client"}}

InitRegister == InitConcurrent({"draft"})

NextRegister ==
  \/ \E s \in Sessions, b \in RegisterBodies : ReceiveRegister(s, b)
  \/ \E s \in Sessions : CheckExistingUser(s)
  \/ \E s \in Sessions : CreateUser(s)
  \/ \E s \in Sessions : Return(s)

SpecRegister == InitRegister /\ [][NextRegister]_vars

\* C18: a register request answered while its email belongs to a stored
\* user is answered 400 and stores no user, and no two stored users share
\* an email, also with two requests for one email in flight together.
C18_DuplicateEmailRefused ==
  [][/\ \A s \in Sessions :
          (/\ sess[s].op = "register"
           /\ sess[s].pc \in {"find", "create"} /\ sess'[s].pc = "done"
           /\ findByEmail(sess[s].body.email) # {})
            => sess'[s].res = 400 /\ users' = users
     /\ \A i, j \in 1..Len(users') :
          users'[i].email = users'[j].email => i = j]_vars

(***************************************************************************)
(* POST /api/time-entries                                                  *)
(***************************************************************************)
\* The most time entries created in a run.
MaxNewEntries == 1

\* The start and end times and the description are taken to be valid.
validateCreateTimeEntry(b) ==
  /\ b.taskId >= 1
  /\ b.durationMinutes = NULL \/ b.durationMinutes >= 1
  /\ b.isBillable \in {"none", "true", "false"}

ReceiveCreateTimeEntry(s, u, b) ==
  /\ sess[s].op = "idle"
  /\ LET req == [Idle EXCEPT !.op = "createTimeEntry", !.user = u]
     IN IF ~validateCreateTimeEntry(b)
          THEN Step(s, [req EXCEPT !.pc = "done", !.res = 400])
        ELSE /\ time_entries_id_seq
                  + Cardinality({o \in Sessions : /\ sess[o].op = "createTimeEntry"
                                                  /\ sess[o].pc = "insert"})
                  < NumEntries + MaxNewEntries
             /\ Step(s, [req EXCEPT !.body = b, !.pc = "insert"])
  /\ UNCHANGED_DB
  /\ UNCHANGED_SEQ

\* A controller that passes the body's status on.
TimeEntryData_StatusFromBody(u, b) ==
  [user_id |-> u,
   task_id |-> b.taskId,
   is_billable |-> b.isBillable # "false",
   duration_minutes |-> b.durationMinutes,
   status |-> IF b.status = "none" THEN "draft" ELSE b.status,
   timesheet_id |-> NULL]

\* timeEntryData of the controller: status is the literal 'draft', and the
\* body's status is not read; isBillable !== false.
TimeEntryData(u, b) ==
  [user_id |-> u,
   task_id |-> b.taskId,
   is_billable |-> b.isBillable # "false",
   duration_minutes |-> b.durationMinutes,
   status |-> "draft",
   timesheet_id |-> NULL]

\* TimeEntryModel.create: INSERT INTO time_entries on the pool.  The id is
\* drawn from the sequence whether or not the insert succeeds; task_id
\* REFERENCES tasks, so an unknown task fails and is answered 500.
InsertTimeEntry(s) ==
  /\ sess[s].op = "createTimeEntry"
  /\ sess[s].pc = "insert"
  /\ time_entries_id_seq' = time_entries_id_seq + 1
  /\ IF sess[s].body.taskId \notin DOMAIN tasks
       THEN /\ Respond(s, 500)
            /\ UNCHANGED time_entries
       ELSE /\ time_entries' =
                 Overlay(time_entries,
                         (time_entries_id_seq + 1) :>
                           TimeEntryData(sess[s].user, sess[s].body))
            /\ Respond(s, 201)
  /\ UNCHANGED <<browser, users, tasks, timesheets, invoices, invoice_items>>
  /\ UNCHANGED <<invoices_id_seq, timesheets_id_seq, month>>

(***************************************************************************)
(* Time entries, timesheets and invoices being created.                    *)
(***************************************************************************)
\* Every body asks for a status other than draft.
CreateEntryBodies ==
  {[NoBody EXCEPT !.taskId = t, !.status = st, !.isBillable = "false"] :
     t \in {0, 1, Cardinality(Tasks) + 1}, st \in {"approved"}}

InitCreate == InitConcurrent({"approved"})

NextCreate ==
  \/ \E s \in Sessions, b \in CreateEntryBodies :
       ReceiveCreateTimeEntry(s, "alice", b)
  \/ \E s \in Sessions :
       /\ TimesheetsStarted < MaxTimesheets
       /\ ReceiveCreateTimesheet(s, "alice", [NoBody EXCEPT !.timeEntryIds = {1}])
  \/ \E s \in Sessions :
       ReceiveCreateInvoice(s, "admin",
                            CreateInvoiceBody("acme", 10, <<Item(1, 5000, {1})>>))
  \/ \E s \in Sessions : InsertTimeEntry(s)
  \/ \E s \in Sessions : CreateTimesheetSteps(s)
  \/ \E s \in Sessions : CreateInvoiceSteps(s)
  \/ \E s \in Sessions : Return(s)

SpecCreate == InitCreate /\ [][NextCreate]_vars

\* C19: a time entry, a timesheet or an invoice that a step adds to the
\* stored rows has status draft, whatever the request body asked for.
C19_NewRecordsStartDraft ==
  [][/\ \A e \in DOMAIN time_entries' \ DOMAIN time_entries :
          time_entries'[e].status = "draft"
     /\ \A t \in DOMAIN timesheets' \ DOMAIN timesheets :
          timesheets'[t].status = "draft"
     /\ \A i \in DOMAIN invoices' \ DOMAIN invoices :
          invoices'[i].status = "draft"]_vars

\* A time entry, a timesheet and an invoice have been created, the time
\* entry from a body asking for approved.
C19_Witness ==
  /\ NumEntries + 1 \in DOMAIN time_entries
  /\ time_entries[NumEntries + 1].status = "draft"
  /\ ~time_entries[NumEntries + 1].is_billable
  /\ DOMAIN timesheets # {}
  /\ DOMAIN invoices # {}

(***************************************************************************)
(* PUT /api/tasks/:id, DELETE /api/tasks/:id                               *)
(***************************************************************************)
TaskOps == {"updateTask", "deleteTask"}
TaskStatuses == {"pending", "in_progress", "completed", "blocked"}

\* The name, the description and the due date are not modelled.
validateUpdateTask(id, b) ==
  /\ id >= 1
  /\ b.status \in {"none"} \cup TaskStatuses

ReceiveUpdateTask(s, u, id, b) ==
  /\ sess[s].op = "idle"
  /\ LET req == [Idle EXCEPT !.op = "updateTask", !.user = u, !.id = id]
     IN IF ~validateUpdateTask(id, b)
          THEN Step(s, [req EXCEPT !.pc = "done", !.res = 400])
        ELSE Step(s, [req EXCEPT !.body = b, !.pc = "access"])
  /\ UNCHANGED_DB
  /\ UNCHANGED_SEQ

\* deleteTask does not read the validation result.
ReceiveDeleteTask(s, u, id) ==
  /\ sess[s].op = "idle"
  /\ Step(s, [Idle EXCEPT !.op = "deleteTask", !.user = u, !.id = id,
                          !.pc = "access"])
  /\ UNCHANGED_DB
  /\ UNCHANGED_SEQ

\* SELECT 1 FROM tasks t JOIN projects p ON t.project_id = p.id
\* WHERE t.id = $1 AND p.client_id = $2
userHasAccess(taskId, userId) ==
  /\ taskId \in DOMAIN tasks
  /\ tasks[taskId].client_id = userId

\* await userHasAccess; no access is 403
CheckAccess(s) ==
  /\ sess[s].op \in TaskOps
  /\ sess[s].pc = "access"
  /\ IF ~userHasAccess(sess[s].id, sess[s].user) THEN Respond(s, 403)
     ELSE Step(s, [sess[s] EXCEPT !.pc = "write"])
  /\ UNCHANGED_DB
  /\ UNCHANGED_SEQ

\* TaskModel.update: UPDATE tasks SET status = COALESCE($3, status); no row
\* answers 404.
UpdateTask(s) ==
  /\ sess[s].op = "updateTask"
  /\ sess[s].pc = "write"
  /\ IF sess[s].id \notin DOMAIN tasks
       THEN /\ Respond(s, 404)
            /\ UNCHANGED tasks
       ELSE /\ tasks' = [tasks EXCEPT ![sess[s].id].status =
                           IF sess[s].body.status = "none" THEN @
                           ELSE sess[s].body.status]
            /\ Respond(s, 200)
  /\ UNCHANGED <<browser, users, time_entries, timesheets, invoices, invoice_items>>
  /\ UNCHANGED_SEQ

\* TaskModel.delete: DELETE FROM tasks WHERE id = $1; the task's time
\* entries go with it (ON DELETE CASCADE); rowCount = 0 answers 404.
DeleteTask(s) ==
  /\ sess[s].op = "deleteTask"
  /\ sess[s].pc = "write"
  /\ LET gone == {e \in DOMAIN time_entries : time_entries[e].task_id = sess[s].id}
     IN /\ gone \cap LockedEntries(s) = {}
        /\ IF sess[s].id \notin DOMAIN tasks
             THEN /\ Respond(s, 404)
                  /\ UNCHANGED <<tasks, time_entries>>
             ELSE /\ tasks' = [t \in DOMAIN tasks \ {sess[s].id} |-> tasks[t]]
                  /\ time_entries' = [e \in DOMAIN time_entries \ gone |->
                                        time_entries[e]]
                  /\ Respond(s, 200)
  /\ UNCHANGED <<browser, users, timesheets, invoices, invoice_items>>
  /\ UNCHANGED_SEQ

(***************************************************************************)
(* Tasks and time entries: requests for ids that may not exist.            *)
(***************************************************************************)
\* Ids no task and no time entry has.
UnknownTask == Cardinality(Tasks) + 1
UnknownEntry == NumEntries + 1

MissingBodies ==
  {[NoBody EXCEPT !.status = "completed"], [NoBody EXCEPT !.status = "void"]}

InitMissing == InitConcurrent({"draft"})

NextMissing ==
  \/ \E s \in Sessions, u \in {"admin", "acme"}, id \in {1, UnknownTask},
        b \in MissingBodies :
       ReceiveUpdateTask(s, u, id, b)
  \/ \E s \in Sessions, u \in {"admin", "acme"}, id \in {1, UnknownTask} :
       ReceiveDeleteTask(s, u, id)
  \/ \E s \in Sessions, u \in {"admin", "alice"}, id \in {1, UnknownEntry} :
       ReceiveUpdateTimeEntry(s, u, id, [NoBody EXCEPT !.durationMinutes = 30])
  \/ \E s \in Sessions, u \in {"admin", "alice"}, id \in {1, UnknownEntry} :
       ReceiveDeleteTimeEntry(s, u, id)
  \/ \E s \in Sessions : CheckAccess(s)
  \/ \E s \in Sessions : UpdateTask(s)
  \/ \E s \in Sessions : DeleteTask(s)
  \/ \E s \in Sessions : CheckOwner(s)
  \/ \E s \in Sessions : UpdateEntry(s)
  \/ \E s \in Sessions : DeleteEntry(s)
  \/ \E s \in Sessions : Return(s)

SpecMissing == InitMissing /\ [][NextMissing]_vars

\* C13: an update or a delete of a task or of a time entry whose id does
\* not exist is answered 404, whoever asks (the request has passed the
\* validators, so 400 is not the answer in question).
C13_UnknownIdAnswered404 ==
  [][\A s \in Sessions :
       (/\ sess[s].pc \notin {"idle", "done"} /\ sess'[s].pc = "done"
        /\ \/ sess'[s].op \in TaskOps /\ sess'[s].id = UnknownTask
           \/ sess'[s].op \in EntryOps /\ sess'[s].id = UnknownEntry)
         => sess'[s].res = 404]_vars

\* Billed entries under later requests: the administrator bills entry 1,
\* then its owner files timesheets, changes their entries, submits them and
\* edits the entry; the administrator approves or rejects the timesheets.
InitFinal == InitSequential({"approved"})

NextFinal ==
  \/ \E s \in Sessions :
       ReceiveCreateInvoice(s, "admin", CreateInvoiceBody("acme", 0, <<Item(100, 50, {1})>>))
  \/ \E s \in Sessions, ids \in {{}, {1}} :
       /\ TimesheetsStarted < MaxTimesheets
       /\ ReceiveCreateTimesheet(s, "alice", [NoBody EXCEPT !.timeEntryIds = ids])
  \/ \E s \in Sessions, op \in ModifyOps, id \in TimesheetIds :
       ReceiveModifyTimesheet(s, op, "alice", id, {1})
  \/ \E s \in Sessions, id \in TimesheetIds : ReceiveSubmitTimesheet(s, "alice", id)
  \/ \E s \in Sessions, id \in TimesheetIds : ReceiveApproveTimesheet(s, "admin", id)
  \/ \E s \in Sessions, id \in TimesheetIds : ReceiveRejectTimesheet(s, "admin", id, TRUE)
  \/ \E s \in Sessions, b \in {[NoBody EXCEPT !.durationMinutes = 30],
                               [NoBody EXCEPT !.status = "draft"]} :
       ReceiveUpdateTimeEntry(s, "alice", 1, b)
  \/ \E s \in Sessions : CreateInvoiceSteps(s)
  \/ \E s \in Sessions : CreateTimesheetSteps(s)
  \/ \E s \in Sessions : ModifyTimesheetSteps(s)
  \/ \E s \in Sessions : TimesheetStatusSteps(s)
  \/ \E s \in Sessions : CheckOwner(s)
  \/ \E s \in Sessions : UpdateEntry(s)
  \/ \E s \in Sessions : Return(s)

SpecFinal == InitFinal /\ [][NextFinal]_vars

\* C24: a time entry whose status is billed keeps that status over every
\* step of a timesheet operation and of a request by a non-admin user.
C24_BilledIsFinal ==
  [][\A e \in DOMAIN time_entries \cap DOMAIN time_entries' :
       time_entries[e].status = "billed" => time_entries'[e].status = "billed"]_vars

\* The same for the steps of the timesheet operations alone.
C24_BilledKeptByTimesheets ==
  [][\A s \in Sessions, e \in DOMAIN time_entries \cap DOMAIN time_entries' :
       (/\ sess[s].op \in {"createTimesheet"} \cup ModifyOps \cup StatusOps
        /\ sess[s] # sess'[s]
        /\ time_entries[e].status = "billed")
         => time_entries'[e].status = "billed"]_vars

(***************************************************************************)
(* The frontend: AuthProvider and the axios instance of services/api.      *)
(* One page is open at a time; a step runs up to the next await.           *)
(***************************************************************************)
Accounts == {"alice", "admin"}

\* UserModel.generateToken: the signed token names its user.
generateToken(u) == "jwt." \o u

\* JSON.stringify of a user object.
JSON_stringify(u) == "{" \o u \o "}"

\* JavaScript's !!v for the page's values.
Truthy(v) == v \notin {null, ""}

isAuthenticated == Truthy(user) /\ Truthy(token)

UNCHANGED_SERVER ==
  /\ UNCHANGED db
  /\ UNCHANGED_SEQ
  /\ UNCHANGED sess

\* The page loads (first visit, or window.location.href was assigned): the
\* useState initialisers run and the effect is scheduled.
AuthProvider ==
  /\ calls.initializeAuth = "idle" \/ calls.href
  /\ user' = null
  /\ token' = localStorage.token
  /\ isLoading' = TRUE
  /\ calls' = [NoCalls EXCEPT !.initializeAuth = "start"]
  /\ UNCHANGED localStorage
  /\ UNCHANGED_SERVER

\* initializeAuth up to its await.
initializeAuth ==
  /\ calls.initializeAuth = "start"
  /\ IF Truthy(localStorage.token) /\ Truthy(localStorage.user)
       THEN /\ calls' = [calls EXCEPT !.initializeAuth = "getMe",
                                      !.storedToken = localStorage.token]
            /\ UNCHANGED isLoading
       ELSE /\ calls' = [calls EXCEPT !.initializeAuth = "done"]
            /\ isLoading' = FALSE
  /\ UNCHANGED <<user, token, localStorage>>
  /\ UNCHANGED_SERVER

\* The response interceptor's error branch, on every answer that clears
\* the stored items.
interceptor_AnyError(status, storage) == NoStorage

\* The response interceptor's error branch: what it leaves in localStorage.
interceptor(status, storage) == IF status = 401 THEN NoStorage ELSE storage

\* The statuses of a refused request; 0 stands for no response at all.
GetMeFailures == {0, 401, 404, 500}
LoginFailures == {0, 400, 500}

\* api.auth.getMe() has answered: the try block's rest, or the catch block.
GetMeResponse(status) ==
  /\ calls.initializeAuth = "getMe"
  /\ IF status = 200
       THEN /\ \E u \in Accounts :
                 /\ generateToken(u) = calls.storedToken
                 /\ user' = u
                 /\ localStorage' = [localStorage EXCEPT !.user = JSON_stringify(u)]
            /\ token' = calls.storedToken
            /\ calls' = [calls EXCEPT !.initializeAuth = "verified"]
       ELSE /\ user' = null
            /\ token' = null
            /\ localStorage' =
                 [interceptor(status, localStorage) EXCEPT !.token = null, !.user = null]
            /\ calls' = [calls EXCEPT !.initializeAuth = "failed",
                                      !.href = @ \/ status = 401]
  /\ isLoading' = FALSE
  /\ UNCHANGED_SERVER

\* login up to its await.
login(email) ==
  /\ calls.initializeAuth # "idle"
  /\ calls.login # "await"
  /\ isLoading' = TRUE
  /\ calls' = [calls EXCEPT !.login = "await", !.email = email]
  /\ UNCHANGED <<user, token, localStorage>>
  /\ UNCHANGED_SERVER

\* api.auth.login() has answered: the try block's rest, then finally.
LoginResponse(status) ==
  /\ calls.login = "await"
  /\ IF status = 200
       THEN /\ user' = calls.email
            /\ token' = generateToken(calls.email)
            /\ localStorage' = [token |-> generateToken(calls.email),
                                user |-> JSON_stringify(calls.email)]
            /\ calls' = [calls EXCEPT !.login = "ok"]
       ELSE /\ localStorage' = interceptor(status, localStorage)
            /\ calls' = [calls EXCEPT !.login = "failed",
                                      !.href = @ \/ status = 401]
            /\ UNCHANGED <<user, token>>
  /\ isLoading' = FALSE
  /\ UNCHANGED_SERVER

logout ==
  /\ calls.initializeAuth # "idle"
  /\ ~calls.logout
  /\ user' = null
  /\ token' = null
  /\ localStorage' = NoStorage
  /\ calls' = [calls EXCEPT !.logout = TRUE, !.href = TRUE]
  /\ UNCHANGED isLoading
  /\ UNCHANGED_SERVER

InitAuth ==
  /\ InitDb({"draft"})
  /\ sess = [s \in {1} |-> Idle]
  /\ user = null
  /\ token = null
  /\ isLoading = FALSE
  /\ calls = NoCalls
  /\ localStorage \in
       {NoStorage} \cup {[token |-> generateToken(u), user |-> JSON_stringify(u)] :
                           u \in Accounts}

NextAuth ==
  \/ AuthProvider
  \/ initializeAuth
  \/ \E status \in {200} \cup GetMeFailures : GetMeResponse(status)
  \/ \E email \in Accounts : login(email)
  \/ \E status \in {200} \cup LoginFailures : LoginResponse(status)
  \/ logout

SpecAuth == InitAuth /\ [][NextAuth]_vars

Cleared == user = null /\ token = null /\ localStorage = NoStorage

\* C21: isAuthenticated holds only in states where user and token are set;
\* the step of logout, and the step that handles a failed getMe of
\* initializeAuth, end with user and token null and no stored item; the step
\* that handles a failed login changes none of user, token, localStorage.
C21_AuthState ==
  /\ [](isAuthenticated => user # null /\ token # null)
  /\ [][(~calls.logout /\ calls'.logout) => Cleared']_vars
  /\ [][(calls.initializeAuth = "getMe" /\ calls'.initializeAuth = "failed")
          => Cleared']_vars
  /\ [][(calls.login = "await" /\ calls'.login = "failed")
          => UNCHANGED <<user, token, localStorage>>]_vars

\* The verification at startup has failed, a later login has succeeded and
\* the next one has failed with the session in place.
C21_Witness ==
  /\ calls.initializeAuth = "failed"
  /\ calls.login = "failed"
  /\ isAuthenticated
  /\ localStorage # NoStorage

=============================================================================
